---- MODULE Spec2Model ----
(***************************************************************************)
(* A model of apsis' optimization core.                                    *)
(*                                                                         *)
(*   - models/experiment.py : the Experiment with its three Candidate      *)
(*     lists and its best_candidate;                                       *)
(*   - optimizers/optimizer.py : the Optimizer contract, and the           *)
(*     QueueBasedOptimizer / QueueBackend pair, a caller and a backend     *)
(*     thread that talk over two Queue.Queue objects.                      *)
(*                                                                         *)
(* Python's None is the number 0 here: Candidate identities and results    *)
(* are the numbers from 1 on.                                              *)
(***************************************************************************)
EXTENDS Integers, Sequences, FiniteSets, TLC

(***************************************************************************)
(* Bounds of the model.                                                    *)
(***************************************************************************)
\* Candidate objects that are valid for the Experiment.
NumCands == 2
\* Results are 1..MaxResult, or None.
MaxResult == 2
\* time.time() returns a value in 0..MaxTime.
MaxTime == 1
\* The caller puts at most MaxPuts items (Experiments, "exit") on the in queue.
MaxPuts == 2
\* The wrapped Optimizer proposes at most MaxGen Candidates in all.
MaxGen == 2
MaxValue == 1
MaxLen == 2

\* optimizer_params["min_candidates"]
_min_candidates == 2

None == 0

Cands == 1 .. NumCands
Results == {None} \cup (1 .. MaxResult)
Times == 0 .. MaxTime

\* The <<result, failed>> fields of a Candidate that has been evaluated, and
\* those of one that has not.
CandidateFields == Results \X BOOLEAN
NotEvaluated == <<None, FALSE>>

(***************************************************************************)
(* The arguments a caller hands to add_pending / add_working /             *)
(* add_finished / add_pausing: the valid Candidates 1..NumCands, whose     *)
(* params are {"x": c}, and four objects that are not valid:               *)
(*   -1  an object that is no Candidate at all,                            *)
(*   -2  a Candidate whose params lack the key "x",                        *)
(*   -3  a Candidate whose params have an extra key "y",                   *)
(*   -4  a Candidate whose value for "x" is outside the ParamDef's domain. *)
(* Two Candidates are equal (list membership, list.remove) exactly when    *)
(* they are the same number.                                               *)
(***************************************************************************)
BadArgs == {-1, -2, -3, -4}
Args == Cands \cup BadArgs

isCandidate(a) == a # -1

params(a) ==
    CASE a \in Cands -> [x |-> a]
      [] a = -2 -> [z |-> 1]
      [] a = -3 -> [x |-> 1, y |-> 1]
      [] a = -4 -> [x |-> NumCands + 1]
      [] OTHER -> [x |-> None]

\* The Experiment's parameter_definitions: one nominal ParamDef "x", given
\* by its list of values.
parameter_definitions == [x |-> Cands]

\* NominalParamDef.is_in_parameter_domain
is_in_parameter_domain(values, value) == value \in values

(***************************************************************************)
(* The Experiment objects of the caller: "exp1", the Experiment the        *)
(* QueueBasedOptimizer was constructed with, whose state the variables     *)
(* candidates_pending ... hold, and "exp2", an Experiment with no          *)
(* Candidates whose only ParamDef is of a class the wrapped Optimizer does *)
(* not support.  The queues, the backend and the wrapped Optimizer hold    *)
(* references to these objects: Queue.Queue does not copy what is put.     *)
(***************************************************************************)
ExpRefs == {"exp1", "exp2"}

ParamDefClasses(exp) ==
    CASE exp = "exp1" -> [x |-> "NominalParamDef"]
      [] exp = "exp3" -> [x |-> "OrdinalParamDef"]
      [] exp = "exp4" -> [x |-> "NominalParamDef", y |-> "PositionParamDef"]
      [] exp = "exp0" -> <<>>
      [] OTHER -> [x |-> "NumericParamDef"]

\* The class and its base classes (parameter_definition.py).
Mro(cls) ==
    CASE cls = "NominalParamDef" -> {"NominalParamDef", "ParamDef"}
      [] cls = "OrdinalParamDef" ->
             {"OrdinalParamDef", "NominalParamDef", "ComparableParamDef",
              "ParamDef"}
      [] cls = "NumericParamDef" ->
             {"NumericParamDef", "ComparableParamDef", "ParamDef"}
      [] cls = "PositionParamDef" ->
             {"PositionParamDef", "OrdinalParamDef", "NominalParamDef",
              "ComparableParamDef", "ParamDef"}
      [] OTHER -> {cls}

(***************************************************************************)
(* The ParamDef classes (parameter_definition.py).  A float is modelled by *)
(* the rational number it stands for, a pair <<numerator, denominator>>    *)
(* with a positive denominator and no common factor: the arithmetic of the *)
(* model is exact, where the code's rounds.  The values of a ParamDef are  *)
(* taken to be numbers, and every number is written as such a pair.  A     *)
(* list is a sequence.  A call gives a record: raised is the name of the   *)
(* exception it raised, or "", and ret is the list it returned, or the     *)
(* list of the one value it returned.                                      *)
(***************************************************************************)
RECURSIVE GCD(_, _)
GCD(a, b) == IF b = 0 THEN a ELSE GCD(b, a % b)

Abs(n) == IF n < 0 THEN -n ELSE n

\* n / d as a float, d # 0.
Rat(n, d) ==
    LET g == GCD(Abs(n), Abs(d))
    IN  IF d < 0 THEN <<(-n) \div g, (-d) \div g>> ELSE <<n \div g, d \div g>>

float(n) == <<n, 1>>

RAdd(a, b) == Rat(a[1] * b[2] + b[1] * a[2], a[2] * b[2])

RSub(a, b) == Rat(a[1] * b[2] - b[1] * a[2], a[2] * b[2])

RMul(a, b) == Rat(a[1] * b[1], a[2] * b[2])

\* a / b, b # 0
RDiv(a, b) == Rat(a[1] * b[2], a[2] * b[1])

RAbs(a) == <<Abs(a[1]), a[2]>>

RLess(a, b) == a[1] * b[2] < b[1] * a[2]

RLeq(a, b) == a[1] * b[2] <= b[1] * a[2]

RECURSIVE RMin(_)
RMin(lst) ==
    IF Len(lst) = 1 THEN lst[1]
    ELSE LET m == RMin(Tail(lst))
         IN  IF RLeq(lst[1], m) THEN lst[1] ELSE m

RECURSIVE RMax(_)
RMax(lst) ==
    IF Len(lst) = 1 THEN lst[1]
    ELSE LET m == RMax(Tail(lst))
         IN  IF RLeq(m, lst[1]) THEN lst[1] ELSE m

Returns(value) == [raised |-> "", ret |-> value]

Raises(exception) == [raised |-> exception, ret |-> <<>>]

\* "value in lst", and lst.index(value) for a value of the list.
In(value, lst) == \E i \in 1 .. Len(lst) : lst[i] = value

index(lst, value) ==
    CHOOSE i \in 1 .. Len(lst) :
        lst[i] = value /\ \A j \in 1 .. (i - 1) : lst[j] # value

\* The attributes of a ParamDef object; the ones its class does not have
\* are written as empty lists, 0 and FALSE.
Object(cls, values, positions, lower, upper, incl_lower, incl_upper, eps) ==
    [cls |-> cls, values |-> values, positions |-> positions,
     lower_bound |-> lower, upper_bound |-> upper,
     include_lower |-> incl_lower, include_upper |-> incl_upper,
     epsilon |-> eps, asymptotic_border |-> float(0), border |-> float(0)]

(***************************************************************************)
(* The arguments of the constructors.  An argument is a Python object, of  *)
(* which the constructors read the type and, of a list or a tuple, the     *)
(* items, and of a number, its value (the one item): a list and a tuple    *)
(* are sized and iterable, a str stands for a text that is no number ("a") *)
(* when it is a bound, None is neither sized nor iterable nor a number.    *)
(***************************************************************************)
PyObject(type, items) == [type |-> type, items |-> items]

list(items) == PyObject("list", items)

tuple(items) == PyObject("tuple", items)

number(x) == PyObject("float", <<x>>)

PyNone == PyObject("NoneType", <<>>)

PyStr == PyObject("str", <<>>)

isinstance(obj, type) == obj.type = type

\* len(obj) and "for v in obj" raise TypeError for an object without them.
Sized(obj) == obj.type \in {"list", "tuple"}

len(obj) == Len(obj.items)

\* float(obj) raises for None (TypeError) and for a text that is no number
\* (ValueError).
IsNumber(obj) == obj.type = "float"

\* NominalParamDef.__init__(values), which OrdinalParamDef.__init__ calls.
NominalParamDef(cls, values) ==
    IF ~isinstance(values, "list") THEN Raises("ValueError")
    ELSE IF len(values) < 1 THEN Raises("ValueError")
    ELSE Returns(Object(cls, values.items, <<>>, float(0), float(0), FALSE,
                        FALSE, float(0)))

\* "assert len(values) == len(positions)", TRUE when it raises
\* AssertionError (the interpreter runs without -O).
assert_fails(values, positions) == len(values) # len(positions)

\* PositionParamDef.__init__(values, positions), positions being a list.
PositionParamDef(cls, values, positions) ==
    IF ~Sized(values) THEN Raises("TypeError")
    ELSE IF assert_fails(values, positions) THEN Raises("AssertionError")
    ELSE LET made == NominalParamDef(cls, values) IN
         IF made.raised # "" THEN made
         ELSE Returns([made.ret EXCEPT !.positions = positions.items])

\* The sum of the first i numbers of lst.
RECURSIVE RSum(_, _)
RSum(lst, i) == IF i = 0 THEN float(0) ELSE RAdd(RSum(lst, i - 1), lst[i])

\* The constructor with "pos += v" for "pos = v".
FixedValueParamDef_cumulative(values) ==
    IF ~Sized(values) THEN Raises("TypeError")
    ELSE PositionParamDef("FixedValueParamDef", values,
                          list([i \in 1 .. len(values) |->
                                    RSum(values.items, i)]))

\* FixedValueParamDef.__init__(values): "for v in values: pos = v".
FixedValueParamDef(values) ==
    IF ~Sized(values) THEN Raises("TypeError")
    ELSE PositionParamDef("FixedValueParamDef", values,
                          list([i \in 1 .. len(values) |-> values.items[i]]))

\* EquidistantPositionParamDef.__init__(values):
\* "for i, v in enumerate(values): pos = float(i)/(len(values)-1)".
EquidistantPositionParamDef(values) ==
    IF ~Sized(values) THEN Raises("TypeError")
    ELSE IF len(values) = 1 THEN Raises("ZeroDivisionError")
    ELSE PositionParamDef("EquidistantPositionParamDef", values,
                          list([i \in 1 .. len(values) |->
                                    Rat(i - 1, len(values) - 1)]))

(***************************************************************************)
(* RangeParamDef.__init__, which takes any arguments: args is the list of  *)
(* the positional ones, kwargs the dictionary of the keyword arguments, a  *)
(* function from their names.  True and False are the ints 1 and 0.        *)
(***************************************************************************)
int(n) == PyObject("int", <<float(n)>>)

True == PyObject("bool", <<float(1)>>)

False == PyObject("bool", <<float(0)>>)

\* isinstance(obj, (int, long)); bool is a subclass of int.
IsInt(obj) == obj.type \in {"int", "bool"}

\* abs(obj) and obj + obj raise TypeError for None.
Numeric(obj) == obj.type \in {"int", "bool", "float"}

\* "if obj:"
Truthy(obj) ==
    IF Numeric(obj) THEN obj.items[1] # float(0) ELSE obj.type # "NoneType"

\* kwargs.get(key, default), and kwargs.get(key), which gives None for a
\* key that is not there.
get(kwargs, key, default) ==
    IF key \in DOMAIN kwargs THEN kwargs[key] ELSE default

\* The attributes as the statements on the arguments leave them (lines
\* 588-624), or the ValueError these raise.
RangeParamDef_args(args, kwargs) ==
    LET n == Cardinality(DOMAIN kwargs)
        self0 == [_start |-> int(0), _stop |-> PyNone, _step |-> int(1),
                  _ints |-> get(kwargs, "ints", True)]
        self1 == CASE Len(args) = 4 ->
                          [_start |-> args[1], _stop |-> args[2],
                           _step |-> args[3], _ints |-> args[4]]
                   [] Len(args) = 3 ->
                          [self0 EXCEPT !._start = args[1], !._stop = args[2],
                                        !._step = args[3]]
                   [] Len(args) = 2 ->
                          [self0 EXCEPT !._start = args[1], !._stop = args[2]]
                   [] Len(args) = 1 -> [self0 EXCEPT !._stop = args[1]]
                   [] OTHER -> self0
        self2 == [_start |-> get(kwargs, "start", PyNone),
                  _stop |-> get(kwargs, "stop", PyNone),
                  _step |-> get(kwargs, "step", PyNone),
                  _ints |-> get(kwargs, "ints", PyNone)]
    IN  IF Len(args) = 4 /\ n = 0 THEN Raises("ValueError")
        ELSE IF Len(args) \notin 1 .. 4 /\ n # 4 THEN Raises("ValueError")
        ELSE IF n >= 1 /\ n # 4 THEN Raises("ValueError")
        ELSE IF n = 4 THEN Returns(self2)
        ELSE Returns(self1)

\* The tests of lines 626-638: TRUE when they raise ValueError.
ints_check_fails(self) ==
    /\ Truthy(self._ints)
    /\ \E attribute \in {self._start, self._stop, self._step} :
           ~IsInt(attribute)

\* "abs(cur_value) < abs(self._stop)", for numbers.
while_test(cur_value, _stop) ==
    RLess(RAbs(cur_value.items[1]), RAbs(_stop.items[1]))

\* "cur_value += self._step", for numbers.
plus(cur_value, _step) ==
    PyObject(IF IsInt(cur_value) /\ IsInt(_step) THEN "int" ELSE "float",
             <<RAdd(cur_value.items[1], _step.items[1])>>)

\* "super(RangeParamDef, self).__init__(values)": the object is of the
\* class RangeParamDef.
RangeParamDef_super(values) ==
    LET made == FixedValueParamDef(list(values))
    IN  IF made.raised # "" THEN made
        ELSE Returns([made.ret EXCEPT !.cls = "RangeParamDef"])

\* MinMaxNumericParamDef.__init__: "try: float(lower_bound),
\* float(upper_bound); except: raise ValueError".
MinMaxNumericParamDef(lower_bound, upper_bound, include_lower, include_upper, epsilon) ==
    IF ~(IsNumber(lower_bound) /\ IsNumber(upper_bound))
    THEN Raises("ValueError")
    ELSE Returns(Object("MinMaxNumericParamDef", <<>>, <<>>,
                        lower_bound.items[1], upper_bound.items[1],
                        include_lower, include_upper, epsilon))

\* AsymptoticNumericParamDef.__init__: "float(asymptotic_border)",
\* "float(border)", outside any try.
AsymptoticNumericParamDef(asymptotic_border, border) ==
    IF \E b \in {asymptotic_border, border} : isinstance(b, "NoneType")
    THEN Raises("TypeError")
    ELSE IF ~(IsNumber(asymptotic_border) /\ IsNumber(border))
    THEN Raises("ValueError")
    ELSE Returns([Object("AsymptoticNumericParamDef", <<>>, <<>>, float(0),
                         float(0), FALSE, FALSE, float(0))
                  EXCEPT !.asymptotic_border = asymptotic_border.items[1],
                         !.border = border.items[1]])

NominalClasses == {"NominalParamDef", "OrdinalParamDef"}

PositionClasses ==
    {"PositionParamDef", "FixedValueParamDef", "EquidistantPositionParamDef"}

(***************************************************************************)
(* The methods.  NominalParamDef and OrdinalParamDef:                      *)
(***************************************************************************)
Nominal_is_in_parameter_domain(self, value) == In(value, self.values)

\* "[0]*len(self.values)" with a 1 at self.values.index(unwarped_value);
\* list.index raises ValueError for a value that is not in the list.
Nominal_warp_in(self, unwarped_value) ==
    IF ~In(unwarped_value, self.values) THEN Raises("ValueError")
    ELSE Returns([i \in 1 .. Len(self.values) |->
                      IF i = index(self.values, unwarped_value)
                      THEN float(1) ELSE float(0)])

\* The value at the last index of the maximum, not at the first.
Nominal_warp_out_last_max(self, warped_value) ==
    IF warped_value = <<>> THEN Raises("ValueError")
    ELSE LET i == CHOOSE k \in 1 .. Len(warped_value) :
                      /\ warped_value[k] = RMax(warped_value)
                      /\ \A j \in (k + 1) .. Len(warped_value) :
                             warped_value[j] # warped_value[k]
         IN  IF i > Len(self.values) THEN Raises("IndexError")
             ELSE Returns(<<self.values[i]>>)

\* "self.values[warped_value.index(max(warped_value))]"
Nominal_warp_out(self, warped_value) ==
    IF warped_value = <<>> THEN Raises("ValueError")
    ELSE LET i == index(warped_value, RMax(warped_value))
         IN  IF i > Len(self.values) THEN Raises("IndexError")
             ELSE Returns(<<self.values[i]>>)

Nominal_warped_size(self) == Len(self.values)

\* ParamDef.distance
ParamDef_distance(self, valueA, valueB) ==
    IF valueA = valueB THEN Returns(<<float(0)>>) ELSE Returns(<<float(1)>>)

Ordinal_distance(self, valueA, valueB) ==
    IF ~In(valueA, self.values) \/ ~In(valueB, self.values)
    THEN Raises("ValueError")
    ELSE Returns(<<Rat(Abs(index(self.values, valueA)
                           - index(self.values, valueB)),
                       Len(self.values))>>)

(***************************************************************************)
(* PositionParamDef and its subclasses.                                    *)
(***************************************************************************)
Position_warp_in(self, unwarped_value) ==
    IF ~In(unwarped_value, self.values) THEN Raises("ValueError")
    ELSE LET pos == self.positions[index(self.values, unwarped_value)]
             span == RSub(RMax(self.positions), RMin(self.positions))
         IN  IF span = float(0) THEN Raises("ZeroDivisionError")
             ELSE Returns(<<RDiv(RSub(pos, RMin(self.positions)), span)>>)

\* "for i, p in enumerate(self.positions)": the index min_pos_idx after the
\* rounds for the positions 1 .. i.
RECURSIVE min_pos_idx(_, _, _)
min_pos_idx(positions, pos, i) ==
    IF i = 1 THEN 1
    ELSE LET before == min_pos_idx(positions, pos, i - 1)
         IN  IF RLess(RAbs(RSub(positions[i], pos)),
                      RAbs(RSub(positions[before], pos)))
             THEN i ELSE before

Position_warp_out(self, warped_value) ==
    IF warped_value = <<>> THEN Raises("IndexError")
    ELSE LET w == warped_value[1]
             pos == RAdd(RMul(w, RSub(RMax(self.positions),
                                      RMin(self.positions))),
                         RMin(self.positions))
         IN  IF RLess(float(1), w)
             THEN Returns(<<self.values[Len(self.values)]>>)
             ELSE IF RLess(w, float(0)) THEN Returns(<<self.values[1]>>)
             ELSE Returns(<<self.values[min_pos_idx(self.positions, pos,
                                                    Len(self.positions))]>>)

Position_distance(self, valueA, valueB) ==
    IF ~In(valueA, self.values) \/ ~In(valueB, self.values)
    THEN Raises("ValueError")
    ELSE Returns(<<RAbs(RSub(self.positions[index(self.values, valueA)],
                             self.positions[index(self.values, valueB)]))>>)

(***************************************************************************)
(* MinMaxNumericParamDef, and what it has from NumericParamDef.            *)
(***************************************************************************)
modifed_lower(self) ==
    RAdd(self.lower_bound,
         IF self.include_lower THEN float(0) ELSE self.epsilon)

\* The upper bound taken as it is, excluded or not.
modifed_upper_ignores_flag(self) == self.upper_bound

modifed_upper(self) ==
    RSub(self.upper_bound,
         IF self.include_upper THEN float(0) ELSE self.epsilon)

MinMax_warp_in(self, unwarped_value) ==
    IF modifed_upper(self) = modifed_lower(self)
    THEN Raises("ZeroDivisionError")
    ELSE Returns(<<RDiv(RSub(unwarped_value, modifed_lower(self)),
                        RSub(modifed_upper(self), modifed_lower(self)))>>)

MinMax_warp_out(self, warped_value) ==
    IF warped_value = <<>> THEN Raises("IndexError")
    ELSE Returns(<<RAdd(RMul(warped_value[1],
                             RSub(modifed_upper(self), modifed_lower(self))),
                        modifed_lower(self))>>)

MinMax_is_in_parameter_domain(self, value) ==
    IF ~(RLess(self.lower_bound, value)
         \/ (RLeq(self.lower_bound, value) /\ self.include_lower))
    THEN FALSE
    ELSE IF ~(RLess(value, self.upper_bound)
              \/ (RLeq(value, self.upper_bound) /\ self.include_upper))
    THEN FALSE
    ELSE TRUE

(***************************************************************************)
(* AsymptoticNumericParamDef.  math.log(x, base) and base**k are followed  *)
(* where they are rational: for x a power base**k of the base, k within    *)
(* MaxExp of 0.  math.log raises ValueError for x <= 0.                    *)
(***************************************************************************)
MaxExp == 2

Pow(base, k) == IF k < 0 THEN Rat(1, base ^ (0 - k)) ELSE float(base ^ k)

HasLog(x, base) == \E k \in (0 - MaxExp) .. MaxExp : Pow(base, k) = x

log(x, base) == CHOOSE k \in (0 - MaxExp) .. MaxExp : Pow(base, k) = x

\* The two "if not ...: unwarped_value = ..." of warp_in.
clamped(self, unwarped_value) ==
    LET lo == RMin(<<self.asymptotic_border, self.border>>)
        hi == RMax(<<self.asymptotic_border, self.border>>)
        v  == IF ~RLeq(lo, unwarped_value) THEN lo ELSE unwarped_value
    IN  IF ~RLeq(v, hi) THEN hi ELSE v

\* warp_in with the two special cases exchanged: [1] for border.
Asymptotic_warp_in_exchanged(self, unwarped_value) ==
    LET v == clamped(self, unwarped_value)
    IN  IF v = self.border THEN Returns(<<float(1)>>)
        ELSE IF v = self.asymptotic_border THEN Returns(<<float(0)>>)
        ELSE IF RLeq(v, float(0)) THEN Raises("ValueError")
        ELSE Returns(<<RAdd(RMul(RSub(float(1), Pow(2, log(v, 10))),
                                 RSub(self.border, self.asymptotic_border)),
                            self.asymptotic_border)>>)

Asymptotic_warp_in(self, unwarped_value) ==
    LET v == clamped(self, unwarped_value)
    IN  IF v = self.border THEN Returns(<<float(0)>>)
        ELSE IF v = self.asymptotic_border THEN Returns(<<float(1)>>)
        ELSE IF RLeq(v, float(0)) THEN Raises("ValueError")
        ELSE Returns(<<RAdd(RMul(RSub(float(1), Pow(2, log(v, 10))),
                                 RSub(self.border, self.asymptotic_border)),
                            self.asymptotic_border)>>)

\* "1-(warped_value_single-self.asymptotic_border)/(self.border-
\* self.asymptotic_border)", the borders being different.
log_argument(self, warped_value_single) ==
    RSub(float(1), RDiv(RSub(warped_value_single, self.asymptotic_border),
                        RSub(self.border, self.asymptotic_border)))

Asymptotic_warp_out(self, warped_value) ==
    IF warped_value = <<>> THEN Raises("IndexError")
    ELSE LET w0 == warped_value[1]
             w1 == IF RLess(w0, float(0)) THEN float(0) ELSE w0
             warped_value_single == IF RLess(float(1), w1) THEN float(1) ELSE w1
         IN  IF warped_value_single = float(1)
             THEN Returns(<<self.asymptotic_border>>)
             ELSE IF warped_value_single = float(0)
             THEN Returns(<<self.border>>)
             ELSE IF self.border = self.asymptotic_border
             THEN Raises("ZeroDivisionError")
             ELSE IF RLeq(log_argument(self, warped_value_single), float(0))
             THEN Raises("ValueError")
             ELSE Returns(<<Pow(10, log(log_argument(self, warped_value_single), 2))>>)

\* The calls of warp_in and warp_out that the model follows: all of them
\* for the other classes, those with a rational result for this one.
RationalWarpIn(self, unwarped_value) ==
    IF self.cls # "AsymptoticNumericParamDef" THEN TRUE
    ELSE IF clamped(self, unwarped_value)
                \in {self.border, self.asymptotic_border} THEN TRUE
    ELSE IF RLeq(clamped(self, unwarped_value), float(0)) THEN TRUE
    ELSE HasLog(clamped(self, unwarped_value), 10)

RationalWarpOut(self, warped_value) ==
    IF self.cls # "AsymptoticNumericParamDef" THEN TRUE
    ELSE IF warped_value = <<>> THEN TRUE
    ELSE IF RLeq(warped_value[1], float(0)) THEN TRUE
    ELSE IF RLeq(float(1), warped_value[1]) THEN TRUE
    ELSE IF self.border = self.asymptotic_border THEN TRUE
    ELSE IF RLeq(log_argument(self, warped_value[1]), float(0)) THEN TRUE
    ELSE HasLog(log_argument(self, warped_value[1]), 2)

(***************************************************************************)
(* What the numeric classes have from NumericParamDef, which calls the     *)
(* warp_in and the is_in_parameter_domain of the object's class.           *)
(***************************************************************************)
Numeric_warp_in(self, unwarped_value) ==
    IF self.cls = "AsymptoticNumericParamDef"
    THEN Asymptotic_warp_in(self, unwarped_value)
    ELSE MinMax_warp_in(self, unwarped_value)

\* NumericParamDef.is_in_parameter_domain:
\* "0 <= self.warp_in(value)[0] <= 1".
Numeric_is_in_parameter_domain(self, value) ==
    /\ Numeric_warp_in(self, value).raised = ""
    /\ RLeq(float(0), Numeric_warp_in(self, value).ret[1])
    /\ RLeq(Numeric_warp_in(self, value).ret[1], float(1))

\* self.is_in_parameter_domain(value) of a numeric class.
numeric_in_domain(self, value) ==
    IF self.cls = "MinMaxNumericParamDef"
    THEN MinMax_is_in_parameter_domain(self, value)
    ELSE Numeric_is_in_parameter_domain(self, value)

\* NumericParamDef.compare_values
Numeric_compare_values(self, one, two) ==
    IF ~numeric_in_domain(self, one) THEN Raises("ValueError")
    ELSE IF ~numeric_in_domain(self, two) THEN Raises("ValueError")
    ELSE IF RLess(one, two) THEN Returns(<<float(-1)>>)
    ELSE IF RLess(two, one) THEN Returns(<<float(1)>>)
    ELSE Returns(<<float(0)>>)

\* NumericParamDef.distance
Numeric_distance(self, valueA, valueB) ==
    IF ~numeric_in_domain(self, valueA) \/ ~numeric_in_domain(self, valueB)
    THEN Raises("ValueError")
    ELSE IF Numeric_warp_in(self, valueB).raised # ""
    THEN Numeric_warp_in(self, valueB)
    ELSE IF Numeric_warp_in(self, valueA).raised # ""
    THEN Numeric_warp_in(self, valueA)
    ELSE Returns(<<RSub(Numeric_warp_in(self, valueB).ret[1],
                        Numeric_warp_in(self, valueA).ret[1])>>)

\* OrdinalParamDef.compare_values, which the position-based classes inherit.
Ordinal_compare_values(self, one, two) ==
    IF ~In(one, self.values) \/ ~In(two, self.values)
    THEN Raises("ValueError")
    ELSE IF index(self.values, one) < index(self.values, two)
    THEN Returns(<<float(-1)>>)
    ELSE IF index(self.values, one) > index(self.values, two)
    THEN Returns(<<float(1)>>)
    ELSE Returns(<<float(0)>>)

(***************************************************************************)
(* The method the class of the object has.                                 *)
(***************************************************************************)
NumericClasses == {"MinMaxNumericParamDef", "AsymptoticNumericParamDef"}

pd_is_in_parameter_domain(self, value) ==
    IF self.cls \in NumericClasses THEN numeric_in_domain(self, value)
    ELSE Nominal_is_in_parameter_domain(self, value)

warp_in(self, unwarped_value) ==
    CASE self.cls \in NominalClasses -> Nominal_warp_in(self, unwarped_value)
      [] self.cls \in PositionClasses \cup {"RangeParamDef"} ->
             Position_warp_in(self, unwarped_value)
      [] OTHER -> Numeric_warp_in(self, unwarped_value)

warp_out(self, warped_value) ==
    CASE self.cls \in NominalClasses -> Nominal_warp_out(self, warped_value)
      [] self.cls \in PositionClasses \cup {"RangeParamDef"} ->
             Position_warp_out(self, warped_value)
      [] self.cls = "AsymptoticNumericParamDef" ->
             Asymptotic_warp_out(self, warped_value)
      [] OTHER -> MinMax_warp_out(self, warped_value)

warped_size(self) ==
    IF self.cls \in NominalClasses THEN Nominal_warped_size(self) ELSE 1

distance(self, valueA, valueB) ==
    CASE self.cls = "NominalParamDef" -> ParamDef_distance(self, valueA, valueB)
      [] self.cls = "OrdinalParamDef" -> Ordinal_distance(self, valueA, valueB)
      [] self.cls \in PositionClasses \cup {"RangeParamDef"} ->
             Position_distance(self, valueA, valueB)
      [] OTHER -> Numeric_distance(self, valueA, valueB)

\* NominalParamDef has no compare_values: the call raises AttributeError.
compare_values(self, one, two) ==
    CASE self.cls = "NominalParamDef" -> Raises("AttributeError")
      [] self.cls \in NumericClasses -> Numeric_compare_values(self, one, two)
      [] OTHER -> Ordinal_compare_values(self, one, two)

VARIABLES
    \* ---- the caller's Experiment "exp1"
    candidates_pending,     \* list of Candidates
    candidates_working,     \* list of Candidates
    candidates_finished,    \* list of Candidates
    best_candidate,         \* a Candidate or None
    last_update_time,       \* Experiment.last_update_time
    minimization_problem,   \* BOOLEAN, set at construction
    \* ---- the fields of the Candidate objects 1..NumCands
    result,                 \* Candidate.result
    failed,                 \* Candidate.failed
    cand_update_time,       \* Candidate.last_update_time
    \* ---- what the caller's last add_* call did
    raised,                 \* TRUE iff it raised ValueError
    \* ---- the two queues
    _in_queue,              \* list of the numbers of the items put, oldest first
    _out_queue,             \* list of proposed Candidates, oldest first
    put_log,                \* history: item number |-> what was put
    \* ---- the backend thread (QueueBackend.run)
    pc,                     \* where the thread is
    _exited,                \* QueueBackend._exited
    _experiment,            \* QueueBackend._experiment
    optimizer_experiment,   \* the wrapped Optimizer's _experiment
    new_update,             \* local of _check_update: an item number or None
    new_candidates,         \* local of _check_generation, not yet put
    gen_count,              \* Candidates the wrapped Optimizer has proposed
    \* ---- histories of the backend
    drained,                \* items taken from the in queue in this tick
    tick_updates,           \* items passed to optimizer.update in this tick
    update_calls,           \* items passed to optimizer.update, ever
    flushed,                \* Candidates removed by the flush of _check_update
    \* ---- the caller's get_next_candidates
    c_pc,                   \* "idle" or "get_next_candidates"
    num_candidates,         \* its argument
    next_candidates,        \* its local list
    returned,               \* history: Candidates it has returned
    \* ---- a ParamDef object and the last call of one of its methods
    param_def,              \* the object's attributes, NoObject before it is made
    pd_call,                \* the method, its arguments and what it gave
    init_frame,             \* RangeParamDef.__init__: where it is, its locals
    \* ---- the class of the Optimizer (the wrapped one, or the one used directly)
    optimizer_class

expVars == <<candidates_pending, candidates_working, candidates_finished,
             best_candidate, last_update_time, minimization_problem,
             result, failed, cand_update_time>>

queueVars == <<_in_queue, _out_queue, put_log>>

backendVars == <<pc, _exited, _experiment, optimizer_experiment, new_update,
                 new_candidates, gen_count, drained, tick_updates,
                 update_calls, flushed>>

callerVars == <<c_pc, num_candidates, next_candidates, returned>>

qVars == <<queueVars, backendVars, callerVars>>

pdVars == <<param_def, pd_call, init_frame>>

classVars == <<optimizer_class>>

vars == <<expVars, raised, qVars, pdVars, classVars>>

(***************************************************************************)
(* Experiment._check_candidate: TRUE when the check passes, FALSE when it  *)
(* raises ValueError.                                                      *)
(***************************************************************************)
_check_candidate_keys_only(cand) ==
    /\ isCandidate(cand)
    /\ DOMAIN params(cand) = DOMAIN parameter_definitions

_check_candidate(cand) ==
    /\ isCandidate(cand)
    /\ DOMAIN params(cand) = DOMAIN parameter_definitions
    /\ \A k \in DOMAIN params(cand) :
           is_in_parameter_domain(parameter_definitions[k], params(cand)[k])

(***************************************************************************)
(* Experiment.better_cand, on Candidates of the Experiment's lists (which  *)
(* have all passed _check_candidate, so that its ValueErrors cannot        *)
(* happen) and None.  res and fl are the Candidates' result and failed     *)
(* fields, minp the Experiment's minimization_problem.                     *)
(***************************************************************************)
better_cand_failed_ignored(candidateA, candidateB, res, fl, minp) ==
    IF candidateA = None THEN FALSE
    ELSE IF candidateB = None THEN TRUE
    ELSE IF res[candidateA] = None THEN FALSE
    ELSE IF res[candidateB] = None THEN TRUE
    ELSE IF minp THEN res[candidateA] < res[candidateB]
    ELSE res[candidateA] > res[candidateB]

better_cand_ties_win(candidateA, candidateB, res, fl, minp) ==
    IF candidateA = None THEN FALSE
    ELSE IF candidateB = None THEN TRUE
    ELSE IF res[candidateA] = None \/ fl[candidateA] THEN FALSE
    ELSE IF res[candidateB] = None \/ fl[candidateB] THEN TRUE
    ELSE IF minp THEN res[candidateA] <= res[candidateB]
    ELSE res[candidateA] >= res[candidateB]

better_cand(candidateA, candidateB, res, fl, minp) ==
    IF candidateA = None THEN FALSE
    ELSE IF candidateB = None THEN TRUE
    ELSE IF res[candidateA] = None \/ fl[candidateA] THEN FALSE
    ELSE IF res[candidateB] = None \/ fl[candidateB] THEN TRUE
    ELSE IF minp THEN res[candidateA] < res[candidateB]
    ELSE res[candidateA] > res[candidateB]

(***************************************************************************)
(* Experiment._update_best: one scan of candidates_finished, from None.    *)
(***************************************************************************)
ScanBest_takes_last(finished, i, best, res, fl, minp) ==
    IF finished = <<>> THEN None ELSE finished[Len(finished)]

RECURSIVE ScanBest(_, _, _, _, _, _)
ScanBest(finished, i, best, res, fl, minp) ==
    IF i > Len(finished) THEN best
    ELSE ScanBest(finished, i + 1,
                  IF better_cand(finished[i], best, res, fl, minp)
                  THEN finished[i] ELSE best,
                  res, fl, minp)

\* The bug of keeping a best_candidate that is still set.
_update_best_keeps(finished, res, fl, minp) ==
    IF best_candidate # None /\ finished # <<>> THEN
        (IF better_cand(finished[Len(finished)], best_candidate, res, fl, minp)
         THEN finished[Len(finished)] ELSE best_candidate)
    ELSE ScanBest(finished, 1, None, res, fl, minp)

_update_best(finished, res, fl, minp) ==
    ScanBest(finished, 1, None, res, fl, minp)

(***************************************************************************)
(* "if candidate in lst: lst.remove(candidate)": the first occurrence of   *)
(* candidate leaves the list.                                              *)
(***************************************************************************)
IndexOf(lst, c) ==
    IF \E i \in 1 .. Len(lst) : lst[i] = c
    THEN CHOOSE i \in 1 .. Len(lst) :
             lst[i] = c /\ \A j \in 1 .. (i - 1) : lst[j] # c
    ELSE 0

remove_nothing(lst, c) == lst

\* The removal of the first element instead of the first occurrence.
remove_head(lst, c) == IF IndexOf(lst, c) = 0 THEN lst ELSE Tail(lst)

remove(lst, c) ==
    LET i == IndexOf(lst, c) IN
    IF i = 0 THEN lst
    ELSE [j \in 1 .. (Len(lst) - 1) |-> IF j < i THEN lst[j] ELSE lst[j + 1]]

(***************************************************************************)
(* The four transitions.  candidate is the object passed and fields its    *)
(* <<result, failed>> fields at the time of the call.                      *)
(***************************************************************************)
Raise ==
    /\ raised' = TRUE
    /\ UNCHANGED expVars

\* time.time(): the clock ticks once per call until it reaches MaxTime, and
\* stands still from then on.
time == IF last_update_time < MaxTime THEN last_update_time + 1 ELSE MaxTime

\* The fields of the Candidate as passed, the two time stamps (lines 158 to
\* 160), and _update_best().
Stamp(candidate, fields) ==
    /\ result' = [result EXCEPT ![candidate] = fields[1]]
    /\ failed' = [failed EXCEPT ![candidate] = fields[2]]
    /\ LET cur_time == time IN
           /\ cand_update_time' =
                  [cand_update_time EXCEPT ![candidate] = cur_time]
           /\ last_update_time' = cur_time
    /\ best_candidate' = _update_best(candidates_finished', result', failed',
                                      minimization_problem)
    /\ raised' = FALSE
    /\ UNCHANGED minimization_problem

add_finished(candidate, fields) ==
    IF ~_check_candidate(candidate) THEN Raise
    ELSE /\ candidates_pending' = remove(candidates_pending, candidate)
         /\ candidates_working' = remove(candidates_working, candidate)
         /\ candidates_finished' =
                Append(remove(candidates_finished, candidate), candidate)
         /\ Stamp(candidate, fields)

add_pending(candidate, fields) ==
    IF ~_check_candidate(candidate) THEN Raise
    ELSE /\ candidates_pending' =
                Append(remove(candidates_pending, candidate), candidate)
         /\ candidates_working' = remove(candidates_working, candidate)
         /\ candidates_finished' = remove(candidates_finished, candidate)
         /\ Stamp(candidate, fields)

add_working(candidate, fields) ==
    IF ~_check_candidate(candidate) THEN Raise
    ELSE /\ candidates_pending' = remove(candidates_pending, candidate)
         /\ candidates_working' =
                Append(remove(candidates_working, candidate), candidate)
         /\ candidates_finished' = remove(candidates_finished, candidate)
         /\ Stamp(candidate, fields)

\* add_pausing removes from candidates_working twice (lines 255 and 259).
add_pausing_to_working(candidate, fields) ==
    IF ~_check_candidate(candidate) THEN Raise
    ELSE /\ candidates_working' =
                Append(remove(remove(candidates_working, candidate), candidate),
                       candidate)
         /\ candidates_pending' = remove(candidates_pending, candidate)
         /\ candidates_finished' = remove(candidates_finished, candidate)
         /\ Stamp(candidate, fields)

add_pausing(candidate, fields) ==
    IF ~_check_candidate(candidate) THEN Raise
    ELSE /\ candidates_working' =
                remove(remove(candidates_working, candidate), candidate)
         /\ candidates_pending' =
                Append(remove(candidates_pending, candidate), candidate)
         /\ candidates_finished' = remove(candidates_finished, candidate)
         /\ Stamp(candidate, fields)

\* The calls of the owner of the Experiment: a Candidate is passed to
\* add_finished once it is evaluated, with any result and failed fields, and
\* to the other three before that, with none.  An object that fails the
\* check is never read beyond its params.
FieldsOf(a) == IF a \in Cands THEN CandidateFields ELSE {NotEvaluated}

AddFinished ==
    /\ \E c \in Args : \E fields \in FieldsOf(c) : add_finished(c, fields)
    /\ UNCHANGED <<qVars, pdVars, classVars>>

AddPending ==
    /\ \E c \in Args : add_pending(c, NotEvaluated)
    /\ UNCHANGED <<qVars, pdVars, classVars>>

AddWorking ==
    /\ \E c \in Args : add_working(c, NotEvaluated)
    /\ UNCHANGED <<qVars, pdVars, classVars>>

AddPausing ==
    /\ \E c \in Args : add_pausing(c, NotEvaluated)
    /\ UNCHANGED <<qVars, pdVars, classVars>>

(***************************************************************************)
(* Experiment.__init__: empty lists, no best_candidate, the time of        *)
(* construction.  The Candidate objects are fresh: no result, not failed.  *)
(***************************************************************************)
ExpInit ==
    /\ candidates_pending = <<>>
    /\ candidates_working = <<>>
    /\ candidates_finished = <<>>
    /\ best_candidate = None
    /\ last_update_time = 0
    /\ minimization_problem \in BOOLEAN
    /\ result = [c \in Cands |-> None]
    /\ failed = [c \in Cands |-> FALSE]
    /\ cand_update_time = [c \in Cands |-> 0]
    /\ raised = FALSE

(***************************************************************************)
(* Optimizer._is_supported_param_type, _is_experiment_supported.           *)
(***************************************************************************)
\* The classes of Optimizers: "Optimizer", the base class, whose
\* SUPPORTED_PARAM_TYPES is the empty list of line 32, and "SomeOptimizer",
\* a class that lists NominalParamDef, which is the class the
\* QueueBasedOptimizer wraps.
OptimizerClasses == {"Optimizer", "SomeOptimizer"}

\* self.SUPPORTED_PARAM_TYPES, the entries of the list: it is a list in
\* both classes, as the test of line 196 wants it.
SUPPORTED_PARAM_TYPES ==
    IF optimizer_class = "Optimizer" THEN {} ELSE {"NominalParamDef"}

\* A test of the class itself, where the code has isinstance.
_is_supported_param_type_exact(param) == param \in SUPPORTED_PARAM_TYPES

_is_supported_param_type(param) ==
    \E sup \in SUPPORTED_PARAM_TYPES : sup \in Mro(param)

_is_experiment_supported(experiment) ==
    \A name \in DOMAIN ParamDefClasses(experiment) :
        _is_supported_param_type(ParamDefClasses(experiment)[name])

(***************************************************************************)
(* What a holder of a reference to an Experiment object reads through it.  *)
(***************************************************************************)
ExpContent(exp) ==
    IF exp = "exp1"
    THEN [candidates_pending |-> candidates_pending,
          candidates_working |-> candidates_working,
          candidates_finished |-> candidates_finished,
          best_candidate |-> best_candidate,
          last_update_time |-> last_update_time]
    ELSE [candidates_pending |-> <<>>,
          candidates_working |-> <<>>,
          candidates_finished |-> <<>>,
          best_candidate |-> None,
          last_update_time |-> 0]

(***************************************************************************)
(* The caller's side: QueueBasedOptimizer.                                 *)
(***************************************************************************)
\* Queue.put(item) on the unbounded in queue.
put(item) ==
    /\ Len(put_log) < MaxPuts
    /\ put_log' = Append(put_log, item)
    /\ _in_queue' = Append(_in_queue, Len(put_log) + 1)

\* QueueBasedOptimizer.update(experiment)
update(experiment) ==
    /\ c_pc = "idle"
    /\ put(experiment)
    /\ UNCHANGED <<expVars, pdVars, classVars, raised, _out_queue, backendVars, callerVars>>

Update == \E experiment \in ExpRefs : update(experiment)

\* QueueBasedOptimizer.exit()
Exit ==
    /\ c_pc = "idle"
    /\ put("exit")
    /\ UNCHANGED <<expVars, pdVars, classVars, raised, _out_queue, backendVars, callerVars>>

\* QueueBasedOptimizer.get_next_candidates(n): the call, ...
GetNextCandidates ==
    /\ c_pc = "idle"
    /\ \E n \in 1 .. _min_candidates : num_candidates' = n
    /\ next_candidates' = <<>>
    /\ c_pc' = "get_next_candidates"
    /\ UNCHANGED <<expVars, pdVars, classVars, raised, queueVars, backendVars, returned>>

\* "for i in range(num_candidates)": the number of rounds.
rounds_one_more(n) == n + 1

rounds(n) == n

\* ... one round of its loop: get_nowait() hands over the oldest Candidate,
\* or raises Queue.Empty, which ends the loop, ...
GetNowait ==
    /\ c_pc = "get_next_candidates"
    /\ Len(next_candidates) < rounds(num_candidates)
    /\ IF _out_queue # <<>>
       THEN /\ next_candidates' = Append(next_candidates, Head(_out_queue))
            /\ _out_queue' = Tail(_out_queue)
            /\ UNCHANGED <<c_pc, num_candidates, returned>>
       ELSE /\ returned' =
                   returned \cup {next_candidates[i] :
                                      i \in 1 .. Len(next_candidates)}
            /\ c_pc' = "idle"
            /\ UNCHANGED <<_out_queue, num_candidates, next_candidates>>
    /\ UNCHANGED <<expVars, pdVars, classVars, raised, _in_queue, put_log, backendVars>>

\* ... and its return after num_candidates rounds.
GetReturn ==
    /\ c_pc = "get_next_candidates"
    /\ Len(next_candidates) = rounds(num_candidates)
    /\ returned' =
           returned \cup {next_candidates[i] : i \in 1 .. Len(next_candidates)}
    /\ c_pc' = "idle"
    /\ UNCHANGED <<expVars, pdVars, classVars, raised, queueVars, backendVars, num_candidates,
                   next_candidates>>

\* The caller works on its Experiment between its calls of the optimizer.
CallerTransition ==
    /\ c_pc = "idle"
    /\ \/ add_pending(1, NotEvaluated)
       \/ add_finished(1, <<1, FALSE>>)
    /\ UNCHANGED <<qVars, pdVars, classVars>>

(***************************************************************************)
(* The backend thread: QueueBackend.run, one round of its loop being       *)
(*   _check_generation(); _check_update(); sleep(0.1).                     *)
(***************************************************************************)
\* The comparison of line 456 as it would be with a call of qsize.
qsize_called_less_than(min_candidates) == Len(_out_queue) < min_candidates

\* "self._out_queue.qsize < self._min_candidates" compares a bound method
\* with an int: CPython 2 orders a number before any object that is not a
\* number, so the comparison is False whatever the queue holds.
qsize_less_than(min_candidates) == FALSE

\* _check_generation, the test of line 455.
CheckGeneration ==
    /\ pc = "check_generation"
    /\ pc' = IF _out_queue = <<>> \/ qsize_less_than(_min_candidates)
             THEN "get_next_candidates" ELSE "check_update"
    /\ UNCHANGED <<expVars, pdVars, classVars, raised, queueVars, callerVars, _exited,
                   _experiment, optimizer_experiment, new_update,
                   new_candidates, gen_count, drained, tick_updates,
                   update_calls, flushed>>

\* An exception of the wrapped Optimizer in run(): had run() an except
\* clause that went on with the loop, ...
run_except_continues == "sleep"

\* ... but it has "try ... finally: pass" only, so the exception ends the
\* thread.
run_try_finally == "crashed"

\* The wrapped Optimizer's get_next_candidates(num_candidates=n): None, a
\* list of 0..n new Candidates, or an exception, which ends the thread.
OptimizerGetNext ==
    /\ pc = "get_next_candidates"
    /\ \/ /\ pc' = "check_update"
          /\ UNCHANGED <<new_candidates, gen_count>>
       \/ \E k \in 0 .. _min_candidates :
              /\ gen_count + k <= MaxGen
              /\ new_candidates' = [i \in 1 .. k |-> gen_count + i]
              /\ gen_count' = gen_count + k
              /\ pc' = "put_nowait"
       \/ /\ pc' = run_try_finally
          /\ UNCHANGED <<new_candidates, gen_count>>
    /\ UNCHANGED <<expVars, pdVars, classVars, raised, queueVars, callerVars, _exited,
                   _experiment, optimizer_experiment, new_update, drained,
                   tick_updates, update_calls, flushed>>

\* "for c in new_candidates: self._out_queue.put_nowait(c)"
PutNowait ==
    /\ pc = "put_nowait"
    /\ IF new_candidates # <<>>
       THEN /\ _out_queue' = Append(_out_queue, Head(new_candidates))
            /\ new_candidates' = Tail(new_candidates)
            /\ pc' = pc
       ELSE /\ pc' = "check_update"
            /\ UNCHANGED <<_out_queue, new_candidates>>
    /\ UNCHANGED <<expVars, pdVars, classVars, raised, _in_queue, put_log, callerVars, _exited,
                   _experiment, optimizer_experiment, new_update, gen_count,
                   drained, tick_updates, update_calls, flushed>>

\* Lines 430 to 433: "exit" ends _check_update at once, anything else goes
\* on with the next round of the while loop.
after_get_goes_on(item) == "check_update"

after_get(item) == IF item = "exit" THEN "sleep" ELSE "check_update"

\* _check_update, one round of "while not self._in_queue.empty()", and the
\* test "if new_update is not None" once the in queue is empty.
CheckUpdate ==
    /\ pc = "check_update"
    /\ IF _in_queue # <<>>
       THEN /\ new_update' = Head(_in_queue)
            /\ _in_queue' = Tail(_in_queue)
            /\ drained' = Append(drained, Head(_in_queue))
            /\ _exited' = (_exited \/ put_log[Head(_in_queue)] = "exit")
            /\ pc' = after_get(put_log[Head(_in_queue)])
       ELSE /\ pc' = IF new_update # None THEN "flush" ELSE "sleep"
            /\ UNCHANGED <<new_update, _in_queue, drained, _exited>>
    /\ UNCHANGED <<expVars, pdVars, classVars, raised, _out_queue, put_log, callerVars,
                   _experiment, optimizer_experiment, new_candidates,
                   gen_count, tick_updates, update_calls, flushed>>

\* "while not self._out_queue.empty()": the test, ...
flush_wanted_never(out_queue) == FALSE

flush_wanted(out_queue) == out_queue # <<>>

FlushTest ==
    /\ pc = "flush"
    /\ pc' = IF flush_wanted(_out_queue) THEN "flush_get" ELSE "update"
    /\ UNCHANGED <<expVars, pdVars, classVars, raised, queueVars, callerVars, _exited,
                   _experiment, optimizer_experiment, new_update,
                   new_candidates, gen_count, drained, tick_updates,
                   update_calls, flushed>>

\* ... and get_nowait(): Queue.Empty, raised when the caller has taken the
\* last Candidate since the test, is caught and ends the flush.
FlushGet ==
    /\ pc = "flush_get"
    /\ IF _out_queue # <<>>
       THEN /\ flushed' = flushed \cup {Head(_out_queue)}
            /\ _out_queue' = Tail(_out_queue)
            /\ pc' = "flush"
       ELSE /\ pc' = "update"
            /\ UNCHANGED <<flushed, _out_queue>>
    /\ UNCHANGED <<expVars, pdVars, classVars, raised, _in_queue, put_log, callerVars, _exited,
                   _experiment, optimizer_experiment, new_update,
                   new_candidates, gen_count, drained, tick_updates,
                   update_calls>>

\* Lines 442 and 443: the backend's reference is set, then the wrapped
\* Optimizer's update (lines 111 to 117) is called: it raises ValueError,
\* which ends the thread, or takes the reference.
ApplyUpdate ==
    /\ pc = "update"
    /\ _experiment' = put_log[new_update]
    /\ tick_updates' = Append(tick_updates, new_update)
    /\ update_calls' = Append(update_calls, new_update)
    /\ IF _is_experiment_supported(put_log[new_update])
       THEN /\ optimizer_experiment' = put_log[new_update]
            /\ pc' = "sleep"
       ELSE /\ pc' = run_try_finally
            /\ UNCHANGED optimizer_experiment
    /\ UNCHANGED <<expVars, pdVars, classVars, raised, queueVars, callerVars, _exited,
                   new_update, new_candidates, gen_count, drained, flushed>>

\* "while not self._exited"
while_forever(exited) == "check_generation"

while_not_exited(exited) == IF exited THEN "done" ELSE "check_generation"

\* sleep(0.1) and "while not self._exited": the next round, or the end.
Sleep ==
    /\ pc = "sleep"
    /\ pc' = while_not_exited(_exited)
    /\ new_update' = None
    /\ drained' = <<>>
    /\ tick_updates' = <<>>
    /\ UNCHANGED <<expVars, pdVars, classVars, raised, queueVars, callerVars, _exited,
                   _experiment, optimizer_experiment, new_candidates,
                   gen_count, update_calls, flushed>>

Backend ==
    \/ CheckGeneration
    \/ OptimizerGetNext
    \/ PutNowait
    \/ CheckUpdate
    \/ FlushTest
    \/ FlushGet
    \/ ApplyUpdate
    \/ Sleep

(***************************************************************************)
(* QueueBasedOptimizer.__init__ with "exp1": two empty queues, the thread  *)
(* started, QueueBackend.__init__ done and run() at its first round.       *)
(***************************************************************************)
QueueInit ==
    /\ _in_queue = <<>>
    /\ _out_queue = <<>>
    /\ put_log = <<>>
    /\ pc = "check_generation"
    /\ _exited = FALSE
    /\ _experiment = "exp1"
    /\ optimizer_experiment = "exp1"
    /\ new_update = None
    /\ new_candidates = <<>>
    /\ gen_count = 0
    /\ drained = <<>>
    /\ tick_updates = <<>>
    /\ update_calls = <<>>
    /\ flushed = {}
    /\ c_pc = "idle"
    /\ num_candidates = 0
    /\ next_candidates = <<>>
    /\ returned = {}

(***************************************************************************)
(* Spec: the Experiment alone, under every call of its four transitions.   *)
(***************************************************************************)
\* No ParamDef object is under study, and no call has been made.
NoObject ==
    Object("", <<>>, <<>>, float(0), float(0), FALSE, FALSE, float(0))

Call(method, args, of, outcome) ==
    [method |-> method, args |-> args, of |-> of,
     raised |-> outcome.raised, ret |-> outcome.ret]

\* RangeParamDef.__init__ has not been called.
NoFrame ==
    [pc |-> "", raised_at |-> "", args |-> <<>>,
     kwargs |-> [name \in {} |-> PyNone], _start |-> PyNone, _stop |-> PyNone,
     _step |-> PyNone, _ints |-> PyNone, values |-> <<>>,
     cur_value |-> PyNone, longer |-> 0]

PdInit ==
    /\ param_def = NoObject
    /\ pd_call = Call("", <<>>, <<>>, Returns(<<>>))
    /\ init_frame = NoFrame

\* The class of the Optimizer.
ClassInit == optimizer_class = "SomeOptimizer"

Init == ExpInit /\ QueueInit /\ PdInit /\ ClassInit

Next ==
    \/ AddFinished
    \/ AddPending
    \/ AddWorking
    \/ AddPausing

Spec == Init /\ [][Next]_vars

(***************************************************************************)
(* QueueSpec: the caller and the backend thread, every interleaving of     *)
(* their steps.  FairQueueSpec: the same, the backend thread being         *)
(* scheduled again and again.                                              *)
(***************************************************************************)
QueueInit2 == Init /\ minimization_problem = TRUE

QueueNext ==
    \/ Update
    \/ Exit
    \/ GetNextCandidates
    \/ GetNowait
    \/ GetReturn
    \/ CallerTransition
    \/ Backend

QueueSpec == QueueInit2 /\ [][QueueNext]_vars

FairQueueSpec == QueueSpec /\ WF_vars(Backend)

(***************************************************************************)
(* OptimizerSpec: an Optimizer of the base class used directly by the      *)
(* owner of the Experiment, who constructs it, updates it and works on the *)
(* Experiment in between.  optimizer_experiment is the Optimizer's         *)
(* _experiment, "None" when there is no Optimizer object (its construction *)
(* has raised); raised tells whether the owner's last call has raised      *)
(* ValueError.  "exp3" is a second Experiment the Optimizer supports: its  *)
(* ParamDef is of a subclass of the supported class.  So is one of the two *)
(* ParamDefs of "exp4", and "exp0" has no ParamDef at all.                 *)
(***************************************************************************)
OptimizerArgs == ExpRefs \cup {"exp3", "exp4", "exp0"}

\* Optimizer.__init__(experiment, optimizer_params), lines 69 to 76.
__init__(experiment) ==
    /\ IF ~_is_experiment_supported(experiment)
       THEN /\ raised' = TRUE
            /\ optimizer_experiment' = "None"
       ELSE /\ raised' = FALSE
            /\ optimizer_experiment' = experiment
    /\ UNCHANGED <<expVars, pdVars, classVars, queueVars, callerVars, pc, _exited, _experiment,
                   new_update, new_candidates, gen_count, drained,
                   tick_updates, update_calls, flushed>>

\* Optimizer.update(experiment), lines 111 to 117.
Optimizer_update(experiment) ==
    /\ optimizer_experiment # "None"
    /\ IF ~_is_experiment_supported(experiment)
       THEN /\ raised' = TRUE
            /\ UNCHANGED optimizer_experiment
       ELSE /\ raised' = FALSE
            /\ optimizer_experiment' = experiment
    /\ UNCHANGED <<expVars, pdVars, classVars, queueVars, callerVars, pc, _exited, _experiment,
                   new_update, new_candidates, gen_count, drained,
                   tick_updates, update_calls, flushed>>

OptimizerConstruct == \E experiment \in OptimizerArgs : __init__(experiment)

OptimizerUpdate == \E experiment \in OptimizerArgs : Optimizer_update(experiment)

OptimizerNext ==
    \/ OptimizerConstruct
    \/ OptimizerUpdate
    \/ AddPending
    \/ AddWorking
    \/ CallerTransition

\* The owner uses one Optimizer class, of which no object is made yet.
\* There is no thread: the queues and the backend's variables stay as they
\* are.
OptimizerInit ==
    /\ ExpInit
    /\ PdInit
    /\ optimizer_class \in OptimizerClasses
    /\ optimizer_experiment = "None"
    /\ _experiment = "None"
    /\ _in_queue = <<>>
    /\ _out_queue = <<>>
    /\ put_log = <<>>
    /\ pc = "done"
    /\ _exited = FALSE
    /\ new_update = None
    /\ new_candidates = <<>>
    /\ gen_count = 0
    /\ drained = <<>>
    /\ tick_updates = <<>>
    /\ update_calls = <<>>
    /\ flushed = {}
    /\ c_pc = "idle"
    /\ num_candidates = 0
    /\ next_candidates = <<>>
    /\ returned = {}

OptimizerSpec == OptimizerInit /\ [][OptimizerNext]_vars

(***************************************************************************)
(* WarpSpec: one ParamDef object is made, by the constructor of one of the *)
(* classes, and its methods are called, with values of its domain and      *)
(* others, with coordinates inside the unit interval and outside, and with *)
(* what the last warp_in has returned.                                     *)
(***************************************************************************)
PdValues == {float(v) : v \in 0 .. MaxValue}

ValueLists == UNION {[1 .. n -> PdValues] : n \in 0 .. MaxLen}

Epsilons == {float(1), Rat(1, 2)}

WarpedValues == {<<Rat(k, 2)>> : k \in -1 .. 3}

\* The arguments of warp_in: the values, and numbers between and beside them.
UnwarpedValues ==
    PdValues \cup {Rat(k, 4) : k \in -1 .. (4 * MaxValue + 1)}
             \cup {Rat(1, 10), Rat(1, 100)}

\* The arguments of compare_values: the values, and numbers beside them
\* and between them, of which 1/10 has the logarithm -1.
ComparedValues == PdValues \cup {float(-1), Rat(1, 10), float(MaxValue + 1)}

\* Lists of more than one coordinate, as a NominalParamDef's warp_out takes.
WarpedVectors ==
    UNION {[1 .. n -> {float(0), Rat(1, 2), float(1)}] : n \in 2 .. MaxLen}

\* The arguments of the constructors: lists, tuples and None for values,
\* lists for positions, numbers, None and a text for bounds.
ValueArgs ==
    {list(values) : values \in ValueLists}
    \cup {tuple(values) : values \in ValueLists}
    \cup {PyNone}

PositionArgs == {list(positions) : positions \in ValueLists}

BoundArgs == {number(x) : x \in PdValues} \cup {PyNone, PyStr}

\* What a constructor call leaves: the object, if it has not raised, and
\* the call, under the name of the class, with its arguments.
Made(cls, args, made) ==
    /\ param_def' = IF made.raised = "" THEN made.ret ELSE NoObject
    /\ pd_call' = Call(cls, args, <<>>,
                       IF made.raised = "" THEN Returns(<<>>) ELSE made)

\* The construction of the object under study, which raises or gives it.
Construct ==
    /\ pd_call.method = ""
    /\ \/ \E cls \in NominalClasses, values \in ValueArgs :
              Made(cls, <<values>>, NominalParamDef(cls, values))
       \/ \E values \in ValueArgs, positions \in PositionArgs :
              Made("PositionParamDef", <<values, positions>>,
                   PositionParamDef("PositionParamDef", values, positions))
       \/ \E values \in ValueArgs :
              Made("FixedValueParamDef", <<values>>,
                   FixedValueParamDef(values))
       \/ \E values \in ValueArgs :
              Made("EquidistantPositionParamDef", <<values>>,
                   EquidistantPositionParamDef(values))
       \/ \E lower \in BoundArgs, upper \in BoundArgs,
             include \in BOOLEAN \X BOOLEAN, eps \in Epsilons :
              Made("MinMaxNumericParamDef", <<lower, upper>>,
                   MinMaxNumericParamDef(lower, upper, include[1], include[2],
                                         eps))
       \/ \E asymptotic_border \in BoundArgs, border \in BoundArgs :
              Made("AsymptoticNumericParamDef", <<asymptotic_border, border>>,
                   AsymptoticNumericParamDef(asymptotic_border, border))
    /\ UNCHANGED <<expVars, raised, qVars, classVars, init_frame>>

(***************************************************************************)
(* The construction of a RangeParamDef, statement by statement: the        *)
(* arguments, the test of the integers, the loop that builds values, and   *)
(* the constructor of the base class.  The calls: the documented shapes    *)
(* with all arguments out of RangeValues, and others.                      *)
(***************************************************************************)
MaxRange == 2

RangeValues ==
    {int(n) : n \in (0 - MaxRange) .. MaxRange} \cup {number(Rat(1, 2))}

\* The model keeps this many elements of the list values, more than a
\* loop that ends appends; of the elements appended after them it keeps
\* whether their number is even (longer = 0) or odd (longer = 1).
LoopCap == 4 * MaxRange + 1

NoKwargs == [name \in {} |-> PyNone]

\* n positional arguments of a call that stands for its shape.
SomeArgs(n) ==
    IF n = 1 THEN <<int(2)>>
    ELSE SubSeq(<<int(0), int(2), int(1), True, int(0)>>, 1, n)

\* Keyword arguments of the given names, of a call that stands for its
\* shape.
SomeKwargs(names) ==
    [name \in names |->
        CASE name = "stop" -> int(2) [] name = "step" -> int(1)
          [] name = "ints" -> True [] OTHER -> int(0)]

\* The four keyword arguments start, stop, step, ints.
FourKwargs(start, stop, step, ints) ==
    [name \in {"start", "stop", "step", "ints"} |->
        CASE name = "start" -> start [] name = "stop" -> stop
          [] name = "step" -> step [] OTHER -> ints]

RangeCalls ==
    {<<args, NoKwargs>> : args \in UNION {[1 .. n -> RangeValues] : n \in 1 .. 3}}
    \cup {<<args \o <<ints>>, NoKwargs>> :
              args \in [1 .. 3 -> RangeValues], ints \in {True, False}}
    \cup {<<<<>>, FourKwargs(c[1], c[2], c[3], c[4])>> :
              c \in RangeValues \X RangeValues \X RangeValues \X {True, False}}
    \cup {<<SomeArgs(n), [name \in {"ints"} |-> ints]>> :
              n \in 1 .. 4, ints \in {True, False}}
    \cup {<<SomeArgs(n), SomeKwargs(names)>> :
              n \in 0 .. 5,
              names \in {{}, {"foo"}, {"start", "stop"},
                         {"start", "stop", "step", "ints"},
                         {"start", "stop", "step", "foo"}}}

\* What a statement of the constructor that raises leaves.
RangeRaises(at, exception) ==
    /\ init_frame' = [init_frame EXCEPT !.pc = "done", !.raised_at = at]
    /\ pd_call' = [pd_call EXCEPT !.raised = exception]
    /\ UNCHANGED param_def

\* Lines 588-624.
RangeCall ==
    /\ pd_call.method = ""
    /\ \E call \in RangeCalls :
           LET args == call[1]
               kwargs == call[2]
               self == RangeParamDef_args(args, kwargs)
           IN  /\ pd_call' = Call("RangeParamDef", args, <<>>,
                                  IF self.raised = "" THEN Returns(<<>>) ELSE self)
               /\ init_frame' =
                      IF self.raised # ""
                      THEN [NoFrame EXCEPT !.pc = "done", !.raised_at = "args",
                                           !.args = args, !.kwargs = kwargs]
                      ELSE [NoFrame EXCEPT !.pc = "ints",
                                           !.args = args, !.kwargs = kwargs,
                                           !._start = self.ret._start,
                                           !._stop = self.ret._stop,
                                           !._step = self.ret._step,
                                           !._ints = self.ret._ints]
    /\ UNCHANGED <<expVars, raised, qVars, classVars, param_def>>

\* Lines 626-641.
RangeInts ==
    /\ init_frame.pc = "ints"
    /\ IF ints_check_fails(init_frame)
       THEN RangeRaises("ints", "ValueError")
       ELSE /\ init_frame' = [init_frame EXCEPT !.pc = "while", !.values = <<>>,
                                                !.cur_value = init_frame._start]
            /\ UNCHANGED <<param_def, pd_call>>
    /\ UNCHANGED <<expVars, raised, qVars, classVars>>

\* Lines 642-644, one round of the loop; abs and + raise TypeError for
\* None.
RangeLoop ==
    /\ init_frame.pc = "while"
    /\ IF ~(Numeric(init_frame.cur_value) /\ Numeric(init_frame._stop))
       THEN RangeRaises("while", "TypeError")
       ELSE /\ while_test(init_frame.cur_value, init_frame._stop)
            /\ IF ~Numeric(init_frame._step)
               THEN RangeRaises("while", "TypeError")
               ELSE /\ init_frame' =
                           [init_frame EXCEPT
                               !.values =
                                   IF Len(@) < LoopCap
                                   THEN Append(@, init_frame.cur_value.items[1])
                                   ELSE @,
                               !.longer =
                                   IF Len(init_frame.values) < LoopCap
                                   THEN @ ELSE 1 - @,
                               !.cur_value = plus(@, init_frame._step)]
                    /\ UNCHANGED <<param_def, pd_call>>
    /\ UNCHANGED <<expVars, raised, qVars, classVars>>

\* Line 646, after the loop.
RangeSuper ==
    /\ init_frame.pc = "while"
    /\ Numeric(init_frame.cur_value) /\ Numeric(init_frame._stop)
    /\ ~while_test(init_frame.cur_value, init_frame._stop)
    /\ LET made == RangeParamDef_super(init_frame.values)
       IN  /\ param_def' = IF made.raised = "" THEN made.ret ELSE NoObject
           /\ pd_call' = [pd_call EXCEPT !.raised = made.raised]
           /\ init_frame' =
                  [init_frame EXCEPT !.pc = "done",
                       !.raised_at = IF made.raised = "" THEN "" ELSE "super"]
    /\ UNCHANGED <<expVars, raised, qVars, classVars>>

\* The running constructor.
RangeInit == RangeInts \/ RangeLoop \/ RangeSuper

\* The object has been made and no method of it has been called.  The
\* methods write no attribute of the object, so that a call gives what it
\* gives as the first call.
JustMade ==
    /\ param_def # NoObject
    /\ pd_call.method = param_def.cls

WarpIn ==
    /\ JustMade
    /\ \E unwarped_value \in UnwarpedValues :
           /\ RationalWarpIn(param_def, unwarped_value)
           /\ pd_call' = Call("warp_in", <<unwarped_value>>, <<>>,
                              warp_in(param_def, unwarped_value))
    /\ UNCHANGED <<expVars, raised, qVars, classVars, param_def, init_frame>>

\* warp_out of some coordinates, ...
WarpOut ==
    /\ JustMade
    /\ \E warped_value \in WarpedValues \cup WarpedVectors :
           /\ RationalWarpOut(param_def, warped_value)
           /\ pd_call' = Call("warp_out", warped_value, <<>>,
                              warp_out(param_def, warped_value))
    /\ UNCHANGED <<expVars, raised, qVars, classVars, param_def, init_frame>>

\* ... and of the list the last call, a warp_in, has returned.
WarpOutOfWarpIn ==
    /\ param_def # NoObject
    /\ pd_call.method = "warp_in"
    /\ pd_call.raised = ""
    /\ RationalWarpOut(param_def, pd_call.ret)
    /\ pd_call' = Call("warp_out", pd_call.ret, pd_call.args,
                       warp_out(param_def, pd_call.ret))
    /\ UNCHANGED <<expVars, raised, qVars, classVars, param_def, init_frame>>

Distance ==
    /\ JustMade
    /\ \E valueA \in PdValues, valueB \in PdValues :
           /\ RationalWarpIn(param_def, valueA)
           /\ RationalWarpIn(param_def, valueB)
           /\ pd_call' = Call("distance", <<valueA, valueB>>, <<>>,
                              distance(param_def, valueA, valueB))
    /\ UNCHANGED <<expVars, raised, qVars, classVars, param_def, init_frame>>

CompareValues ==
    /\ JustMade
    /\ \E one \in ComparedValues, two \in ComparedValues :
           /\ RationalWarpIn(param_def, one)
           /\ RationalWarpIn(param_def, two)
           /\ pd_call' = Call("compare_values", <<one, two>>, <<>>,
                              compare_values(param_def, one, two))
    /\ UNCHANGED <<expVars, raised, qVars, classVars, param_def, init_frame>>

WarpInit == Init /\ minimization_problem = TRUE

WarpNext ==
    \/ Construct
    \/ RangeCall
    \/ RangeInts
    \/ RangeLoop
    \/ RangeSuper
    \/ WarpIn
    \/ WarpOut
    \/ WarpOutOfWarpIn
    \/ Distance
    \/ CompareValues

WarpSpec == WarpInit /\ [][WarpNext]_vars

\* One thread that calls RangeParamDef and does nothing else.
RangeNext ==
    \/ RangeCall
    \/ RangeInts
    \/ RangeLoop
    \/ RangeSuper

RangeSpec == WarpInit /\ [][RangeNext]_vars

\* A constructor that has been called runs on: nothing else runs in its
\* thread.
FairRangeSpec == RangeSpec /\ WF_vars(RangeInit)

(***************************************************************************)
(* DumpSpec: the owner of the Experiment works on it, dumps it with        *)
(* to_dict and goes on with the Experiment that from_dict makes of the     *)
(* dump.  A Candidate's dictionary holds its params, result, failed and    *)
(* last_update_time, and the Candidate made from a dictionary has these    *)
(* fields; it equals the Candidate with the same params.                   *)
(***************************************************************************)
Candidate_to_dict(c) ==
    [params |-> params(c), result |-> result[c], failed |-> failed[c],
     last_update_time |-> cand_update_time[c]]

Candidate_from_dict(d) == CHOOSE c \in Cands : params(c) = d.params

\* Experiment.to_dict, without name, notes, exp_id and
\* parameter_definitions, which are what the Experiment was made with.  The
\* entry "best_candidate" is the list of the one dictionary, or the empty
\* list for None.
to_dict ==
    [minimization_problem |-> minimization_problem,
     candidates_finished |->
         [i \in 1 .. Len(candidates_finished) |->
              Candidate_to_dict(candidates_finished[i])],
     candidates_pending |->
         [i \in 1 .. Len(candidates_pending) |->
              Candidate_to_dict(candidates_pending[i])],
     candidates_working |->
         [i \in 1 .. Len(candidates_working) |->
              Candidate_to_dict(candidates_working[i])],
     last_update_time |-> last_update_time,
     best_candidate |->
         IF best_candidate # None
         THEN <<Candidate_to_dict(best_candidate)>> ELSE <<>>]

\* The lists of Candidates that from_dict makes of the lists of
\* dictionaries (lines 534 to 545).
cands_of(cand_dicts) ==
    [i \in 1 .. Len(cand_dicts) |-> Candidate_from_dict(cand_dicts[i])]

\* "exp.candidates_working = exp.candidates_working" (line 553): the list
\* of the Experiment just constructed, which is empty, stays.
restored_working(cands_working) == <<>>

\* from_dict(d): the Experiment it returns, whose Candidates have the fields
\* of their dictionaries, is the one the owner has from now on.
from_dict(d) ==
    LET cands_finished == cands_of(d.candidates_finished)
        cands_pending == cands_of(d.candidates_pending)
        cands_working == cands_of(d.candidates_working)
        dicts == d.candidates_finished \o d.candidates_pending
                     \o d.candidates_working
        dict_of(c) ==
            dicts[CHOOSE i \in 1 .. Len(dicts) :
                      Candidate_from_dict(dicts[i]) = c]
        made == {Candidate_from_dict(dicts[i]) : i \in 1 .. Len(dicts)}
    IN  /\ candidates_finished' = cands_finished
        /\ candidates_pending' = cands_pending
        /\ candidates_working' = restored_working(cands_working)
        /\ result' = [c \in Cands |->
                          IF c \in made THEN dict_of(c).result ELSE result[c]]
        /\ failed' = [c \in Cands |->
                          IF c \in made THEN dict_of(c).failed ELSE failed[c]]
        /\ cand_update_time' =
               [c \in Cands |->
                    IF c \in made THEN dict_of(c).last_update_time
                    ELSE cand_update_time[c]]
        /\ minimization_problem' = d.minimization_problem
        /\ best_candidate' = _update_best(candidates_finished', result',
                                          failed', minimization_problem')
        /\ last_update_time' = d.last_update_time
        /\ raised' = FALSE

Restore ==
    /\ from_dict(to_dict)
    /\ UNCHANGED <<qVars, pdVars, classVars>>

DumpNext ==
    \/ AddFinished
    \/ AddPending
    \/ AddWorking
    \/ AddPausing
    \/ Restore

DumpSpec == Init /\ [][DumpNext]_vars

(***************************************************************************)
(* The claims.                                                             *)
(***************************************************************************)
Range(lst) == {lst[i] : i \in 1 .. Len(lst)}

Count(lst, c) == Cardinality({i \in 1 .. Len(lst) : lst[i] = c})

\* The Candidate has been passed to a transition that accepted it: it
\* carries a time stamp later than the Experiment's construction.
Passed(c) == cand_update_time[c] > 0

\* The Candidate has a result and is not marked failed.
HasValidResult(c) == result[c] # None /\ ~failed[c]

\* C1 (Spec).  After any sequence of add_pending / add_working /
\* add_finished / add_pausing calls, every Candidate that one of them has
\* taken is in exactly one of candidates_pending, candidates_working and
\* candidates_finished, once; nothing else is in any of the three lists.
C1_ExactlyOnePartition ==
    /\ \A c \in Cands :
           Count(candidates_pending, c) + Count(candidates_working, c)
               + Count(candidates_finished, c)
           = (IF Passed(c) THEN 1 ELSE 0)
    /\ Range(candidates_pending) \cup Range(candidates_working)
           \cup Range(candidates_finished) \subseteq Cands

\* Every Candidate has been passed, the lists hold them all, and two of the
\* lists are in use.
C1_Witness ==
    /\ \A c \in Cands : Passed(c)
    /\ Len(candidates_pending) + Len(candidates_working)
           + Len(candidates_finished) = NumCands
    /\ candidates_finished # <<>>
    /\ candidates_pending # <<>>

\* C2 (Spec).  After every transition, best_candidate is an element of
\* candidates_finished, and it is None when (and only when)
\* candidates_finished is empty.
C2_BestIsFinished ==
    IF candidates_finished = <<>>
    THEN best_candidate = None
    ELSE best_candidate \in Range(candidates_finished)

\* A best_candidate that is not the last of candidates_finished.
C2_Witness ==
    /\ Len(candidates_finished) >= 2
    /\ best_candidate \in Range(candidates_finished)
    /\ best_candidate # candidates_finished[Len(candidates_finished)]

\* C3 (Spec).  Whenever candidates_finished holds a Candidate with a valid
\* result, best_candidate is such a Candidate, its result is the minimum
\* (minimization_problem) or the maximum (otherwise) of the valid finished
\* results, and no finished Candidate is better than it under better_cand:
\* in every reachable state, so whatever the order of the insertions.
C3_BestIsExtremum ==
    (\E c \in Range(candidates_finished) : HasValidResult(c)) =>
        /\ best_candidate \in Range(candidates_finished)
        /\ HasValidResult(best_candidate)
        /\ \A c \in Range(candidates_finished) :
               /\ HasValidResult(c) =>
                      IF minimization_problem
                      THEN result[best_candidate] <= result[c]
                      ELSE result[best_candidate] >= result[c]
               /\ ~better_cand(c, best_candidate, result, failed,
                               minimization_problem)

\* The best Candidate was finished last, after a worse one.
C3_Witness ==
    /\ Len(candidates_finished) = 2
    /\ HasValidResult(candidates_finished[1])
    /\ HasValidResult(candidates_finished[2])
    /\ result[candidates_finished[1]] # result[candidates_finished[2]]
    /\ best_candidate = candidates_finished[2]

\* C4 (Spec).  add_pending, add_working, add_finished and add_pausing,
\* called with an object that is not valid for the Experiment (no
\* Candidate, a key set that is not the ParamDefs', a value outside its
\* ParamDef's domain), raise an error and leave the three lists,
\* best_candidate, last_update_time (and the Candidates) as they were.
C4_InvalidIsRejected ==
    [][\A c \in BadArgs :
           (\/ add_pending(c, NotEvaluated)
            \/ add_working(c, NotEvaluated)
            \/ add_finished(c, NotEvaluated)
            \/ add_pausing(c, NotEvaluated))
           => (raised' /\ UNCHANGED expVars)]_vars

\* A call has raised on an Experiment that holds Candidates and a best one.
C4_Witness ==
    /\ raised
    /\ best_candidate # None
    /\ candidates_pending # <<>>

\* What was put as item number i.
Item(i) == put_log[i]

StrictlyIncreasing(lst) ==
    \A i, j \in 1 .. Len(lst) : i < j => lst[i] < lst[j]

\* The Candidates the backend has put on the out queue so far (the wrapped
\* Optimizer numbers its proposals 1, 2, ... and they are put in that order).
Enqueued == (1 .. gen_count) \ Range(new_candidates)

\* C5 (QueueSpec).  When the update handling of a tick is over (the thread
\* is at its sleep, or has ended in the wrapped Optimizer's update) and the
\* items it took from the in queue are N >= 1 Experiments and no "exit",
\* the wrapped Optimizer's update has been called exactly once in this tick,
\* with the last of them, and the out queue is empty.
C5_Coalescing ==
    (/\ pc \in {"sleep", "crashed"}
     /\ drained # <<>>
     /\ \A i \in 1 .. Len(drained) : Item(drained[i]) # "exit")
    => /\ tick_updates = <<drained[Len(drained)]>>
       /\ StrictlyIncreasing(drained)
       /\ _out_queue = <<>>

\* Two Experiments were taken in one tick, the second one was applied, and
\* the flush has removed a Candidate.
C5_Witness ==
    /\ pc = "sleep"
    /\ Len(drained) = 2
    /\ tick_updates = <<drained[2]>>
    /\ Item(drained[1]) # Item(drained[2])
    /\ flushed # {}

\* C6 (QueueSpec).  The claim: whenever a tick's _check_generation finds
\* fewer than min_candidates Candidates on the out queue, it calls the
\* wrapped Optimizer's get_next_candidates.
C6_RefillBelowMin ==
    [][(pc = "check_generation" /\ pc' # pc
        /\ Len(_out_queue) < _min_candidates)
       => pc' = "get_next_candidates"]_vars

\* C7 (QueueSpec).  Once the backend has taken "exit" from the in queue it
\* is Exited, in that tick, and goes to the end of its loop; what was put
\* after an "exit" it has taken stays on the in queue, so it is never taken,
\* never passed to the wrapped Optimizer's update and never the cause of a
\* flush.
C7_ExitStops ==
    /\ (\E i \in 1 .. Len(drained) : Item(drained[i]) = "exit")
           => (_exited /\ pc = "sleep")
    /\ _exited => pc \in {"sleep", "done"}
    /\ \A e, i \in 1 .. Len(put_log) :
           (Item(e) = "exit" /\ e < i /\ e \notin Range(_in_queue))
           => /\ i \in Range(_in_queue)
              /\ i \notin Range(update_calls)
              /\ i \notin Range(drained)
              /\ i # new_update

\* The loop has ended on an "exit" that an Experiment was put after.
C7_Witness ==
    /\ pc = "done"
    /\ \E e, i \in 1 .. Len(put_log) :
           Item(e) = "exit" /\ e < i /\ Item(i) # "exit"

\* C8 (FairQueueSpec).  exit() is one put on the unbounded in queue, which
\* waits for nothing.  Once it has returned, the backend thread, if it keeps
\* being scheduled, gets to the end of its loop, Exited, unless a call of
\* the wrapped Optimizer has raised.
C8_ExitTerminates ==
    /\ ("exit" \in Range(put_log)) ~> (pc = "done" \/ pc = "crashed")
    /\ [](pc = "done" => _exited)

\* The loop has ended after an "exit", with Candidates left on the out queue.
C8_Witness ==
    /\ pc = "done"
    /\ _exited
    /\ "exit" \in Range(put_log)
    /\ _out_queue # <<>>

\* The Candidates a running get_next_candidates has collected so far.
InHand ==
    IF c_pc = "get_next_candidates" THEN Range(next_candidates) ELSE {}

\* C9 (QueueSpec).  get_next_candidates(n) always has a next step (it does
\* not wait, and an empty queue ends it); what it collects is at most n
\* Candidates, in the order the backend put them; and a Candidate the
\* backend has put is in exactly one place: on the out queue, in the
\* caller's hands, returned by an earlier call, or flushed.
C9_GetNextCandidates ==
    /\ c_pc = "get_next_candidates" => ENABLED (GetNowait \/ GetReturn)
    /\ Len(next_candidates) <= num_candidates
    /\ StrictlyIncreasing(next_candidates)
    /\ StrictlyIncreasing(_out_queue)
    /\ InHand \cap Range(_out_queue) = {}
    /\ returned \cap (InHand \cup Range(_out_queue)) = {}
    /\ flushed \cap (InHand \cup Range(_out_queue)) = {}
    /\ returned \cap flushed = {}
    /\ returned \cup flushed \cup InHand \cup Range(_out_queue) = Enqueued
    /\ c_pc = "idle" => Range(next_candidates) \subseteq returned

\* A call that asked for two Candidates has returned one, the other one
\* having been flushed.
C9_Witness ==
    /\ c_pc = "idle"
    /\ num_candidates = 2
    /\ Len(next_candidates) = 1
    /\ returned # {}
    /\ flushed # {}

\* What the backend, and the wrapped Optimizer, read through the Experiment
\* references they hold.
BackendView ==
    <<ExpContent(_experiment), ExpContent(optimizer_experiment)>>

\* C10 (QueueSpec).  The claim: the Experiment the backend and the wrapped
\* Optimizer hold changes only when the backend applies an item of the in
\* queue.
C10_NoSharedState ==
    [][BackendView' # BackendView => (pc = "update" /\ pc' # pc)]_vars

\* C11 (Spec).  better_cand(a, b), for every pair of None and the
\* Candidates, with the result and failed fields they have in the state:
\* FALSE when a is None; TRUE when a is a Candidate and b is None; FALSE
\* when a has no result or is failed; TRUE when a is valid and b is not;
\* otherwise a's result strictly below (minimization) or strictly above
\* (maximization) b's, so FALSE in both directions for equal results.
C11_BetterCandTable ==
    \A a, b \in {None} \cup Cands :
        LET answer == better_cand(a, b, result, failed, minimization_problem)
            validA == result[a] # None /\ ~failed[a]
            validB == result[b] # None /\ ~failed[b]
        IN  /\ a = None => ~answer
            /\ (a # None /\ b = None) => answer
            /\ (a # None /\ b # None /\ ~validA) => ~answer
            /\ (a # None /\ b # None /\ validA /\ ~validB) => answer
            /\ (a # None /\ b # None /\ validA /\ validB) =>
                   (answer <=> IF minimization_problem
                               THEN result[a] < result[b]
                               ELSE result[a] > result[b])
            /\ (a # None /\ b # None /\ validA /\ validB
                /\ result[a] = result[b]) =>
                   /\ ~answer
                   /\ ~better_cand(b, a, result, failed, minimization_problem)

\* Two finished Candidates with the same valid result: the scan of
\* _update_best has compared them and kept the first.
C11_Witness ==
    /\ Len(candidates_finished) = 2
    /\ \A c \in Range(candidates_finished) : result[c] = 1 /\ ~failed[c]
    /\ best_candidate = candidates_finished[1]

\* C12 (Spec).  add_finished(c) of a valid Candidate c that is not yet in
\* candidates_finished leaves a best_candidate that the previous one is not
\* better than.
C12_BestNeverWorse ==
    [][\A c \in Cands :
           (/\ c \notin Range(candidates_finished)
            /\ candidates_finished' = Append(candidates_finished, c)
            /\ add_finished(c, <<result'[c], failed'[c]>>))
           => ~better_cand(best_candidate, best_candidate', result', failed',
                           minimization_problem)]_vars

\* A worse Candidate has been finished after the best one, which stayed.
C12_Witness ==
    /\ Len(candidates_finished) = 2
    /\ best_candidate = candidates_finished[1]
    /\ better_cand(candidates_finished[1], candidates_finished[2], result,
                   failed, minimization_problem)

\* c is in the list lst once and in neither of the two others.
InOnly(c, lst, other1, other2) ==
    /\ Count(lst, c) = 1
    /\ Count(other1, c) = 0
    /\ Count(other2, c) = 0

\* The element a transition has appended to its target list.
Last(lst) == IF lst = <<>> THEN None ELSE lst[Len(lst)]

\* C13 (Spec).  After a transition that accepted Candidate c, c is in the
\* target list of the transition, once, and in no other: candidates_pending for
\* add_pending and add_pausing, candidates_working for add_working,
\* candidates_finished for add_finished.
C13_TargetPartition ==
    [][\A c \in Cands :
           /\ add_pausing(c, NotEvaluated)
                  => InOnly(c, candidates_pending', candidates_working',
                            candidates_finished')
           /\ (/\ Last(candidates_pending') = c
               /\ add_pending(c, NotEvaluated))
                  => InOnly(c, candidates_pending', candidates_working',
                            candidates_finished')
           /\ (/\ Last(candidates_working') = c
               /\ add_working(c, NotEvaluated))
                  => InOnly(c, candidates_working', candidates_pending',
                            candidates_finished')
           /\ (/\ Last(candidates_finished') = c
               /\ add_finished(c, <<result'[c], failed'[c]>>))
                  => InOnly(c, candidates_finished', candidates_pending',
                            candidates_working')]_vars

\* A Candidate that was finished and one that was working are both back in
\* candidates_pending.
C13_Witness ==
    /\ Len(candidates_pending) = 2
    /\ \A c \in Range(candidates_pending) : Passed(c)
    /\ candidates_working = <<>>
    /\ candidates_finished = <<>>
    /\ last_update_time = MaxTime

\* Every ParamDef of the Experiment is an instance of a class of
\* SUPPORTED_PARAM_TYPES.
AllParamDefsSupported(exp) ==
    \A name \in DOMAIN ParamDefClasses(exp) :
        Mro(ParamDefClasses(exp)[name]) \cap SUPPORTED_PARAM_TYPES # {}

\* C14 (OptimizerSpec).  Optimizer.update(experiment) and the construction
\* Optimizer(experiment): with a ParamDef outside SUPPORTED_PARAM_TYPES the
\* call raises, update leaving the Experiment the Optimizer holds as it was
\* and the construction leaving no Optimizer; otherwise the call returns and
\* the Optimizer holds the given Experiment.
C14_UpdateChecksSupport ==
    [][\A experiment \in OptimizerArgs :
           /\ Optimizer_update(experiment) =>
                  IF AllParamDefsSupported(experiment)
                  THEN ~raised' /\ optimizer_experiment' = experiment
                  ELSE raised' /\ optimizer_experiment' = optimizer_experiment
           /\ __init__(experiment) =>
                  IF AllParamDefsSupported(experiment)
                  THEN ~raised' /\ optimizer_experiment' = experiment
                  ELSE raised' /\ optimizer_experiment' = "None"]_vars

\* The Optimizer has taken the Experiment with the ParamDef of a subclass,
\* and a later update with an unsupported Experiment has raised.
C14_Witness ==
    /\ optimizer_experiment = "exp3"
    /\ raised
    /\ candidates_finished # <<>>

\* C15 (QueueSpec).  The claim: QueueBasedOptimizer.update(experiment) with
\* an Experiment that has a ParamDef outside the wrapped Optimizer's
\* SUPPORTED_PARAM_TYPES raises for the caller, and the backend never holds
\* such an Experiment.
C15_UnsupportedUpdateRaises ==
    /\ [][\A experiment \in ExpRefs :
              (~AllParamDefsSupported(experiment) /\ update(experiment))
              => raised']_vars
    /\ [](AllParamDefsSupported(_experiment))

\* The "exit" items the backend has taken from the in queue.
TakenExits ==
    {i \in 1 .. Len(put_log) : Item(i) = "exit" /\ i \notin Range(_in_queue)}

\* C16 (QueueSpec).  exit() can be called again and again: each call is one
\* put that waits for nothing and raises nothing; the backend takes one
\* "exit" at most, the others stay on the in queue; and once it is Exited
\* it stays so, makes no call of the wrapped Optimizer and puts nothing on
\* the out queue, so that it ends as after a single call.
C16_ExitIdempotent ==
    /\ []((c_pc = "idle" /\ Len(put_log) < MaxPuts) => ENABLED Exit)
    /\ [](Cardinality(TakenExits) <= 1)
    /\ [](pc = "done" => (_exited /\ Cardinality(TakenExits) = 1))
    /\ [][_exited =>
              /\ _exited'
              /\ pc' \in {"sleep", "done"}
              /\ _in_queue' \in {_in_queue, Append(_in_queue, Len(put_log) + 1)}
              /\ UNCHANGED <<update_calls, gen_count, new_candidates, flushed,
                             _experiment, optimizer_experiment>>
              /\ Len(_out_queue') <= Len(_out_queue)]_vars

\* The loop has ended after two calls of exit(): the second "exit" is
\* still on the in queue.
C16_Witness ==
    /\ pc = "done"
    /\ \E i, j \in 1 .. Len(put_log) :
           /\ i < j
           /\ Item(i) = "exit"
           /\ Item(j) = "exit"
           /\ i \in TakenExits
           /\ j \in Range(_in_queue)

\* A call of the wrapped Optimizer has raised in the backend thread: the
\* thread has ended on it, or update was called with an Experiment the
\* wrapped Optimizer does not support.
WrappedRaised ==
    \/ pc = "crashed"
    \/ \E i \in Range(update_calls) : ~AllParamDefsSupported(Item(i))

\* C17 (QueueSpec).  Once the wrapped Optimizer has raised in the backend
\* thread, the thread has ended; nothing tells the caller: its update, exit
\* and get_next_candidates go on returning as before; and no Candidate is
\* put on the out queue any more.
C17_FailureStaysInThread ==
    /\ [](WrappedRaised =>
              /\ pc = "crashed"
              /\ ~raised
              /\ (c_pc = "idle" => ENABLED GetNextCandidates)
              /\ (c_pc = "idle" /\ Len(put_log) < MaxPuts)
                     => (ENABLED Update /\ ENABLED Exit)
              /\ c_pc = "get_next_candidates"
                     => ENABLED (GetNowait \/ GetReturn))
    /\ [][WrappedRaised =>
              /\ WrappedRaised'
              /\ gen_count' = gen_count
              /\ Len(_out_queue') <= Len(_out_queue)
              /\ Range(_out_queue') \subseteq Range(_out_queue)]_vars

\* The thread has ended in the wrapped Optimizer's update, Candidates have
\* been returned to the caller, and an "exit" of the caller is on the in
\* queue, where it stays.
C17_Witness ==
    /\ pc = "crashed"
    /\ update_calls # <<>>
    /\ returned # {}
    /\ c_pc = "idle"
    /\ \E i \in Range(_in_queue) : Item(i) = "exit"

\* The last call had one value of the object's domain for argument ...
CalledWith(method, value) ==
    /\ param_def # NoObject
    /\ pd_call.method = method
    /\ pd_call.args = <<value>>

\* ... or was the warp_out of what warp_in gave for a value of the domain.
RoundTripOf(value) ==
    /\ param_def # NoObject
    /\ pd_call.method = "warp_out"
    /\ pd_call.of = <<value>>

\* C18 (WarpSpec).  The claim: for an object of any ParamDef class and any
\* value x of its domain, warp_in(x) returns a list of warped_size()
\* coordinates and warp_out of that list returns x.
C18_WarpRoundTrip ==
    \A x \in PdValues :
        /\ (CalledWith("warp_in", x) /\ pd_is_in_parameter_domain(param_def, x))
               => /\ pd_call.raised = ""
                  /\ Len(pd_call.ret) = warped_size(param_def)
        /\ (RoundTripOf(x) /\ pd_is_in_parameter_domain(param_def, x))
               => /\ pd_call.raised = ""
                  /\ pd_call.ret = <<x>>

\* The object is a MinMaxNumericParamDef that excludes its upper bound.
UpperExcluded ==
    /\ param_def.cls = "MinMaxNumericParamDef"
    /\ ~param_def.include_upper

C20_DistanceNotNegative ==
    (/\ param_def # NoObject
     /\ pd_call.method = "distance"
     /\ pd_call.raised = ""
     /\ \A i \in 1 .. 2 : pd_is_in_parameter_domain(param_def, pd_call.args[i]))
    => RLeq(float(0), pd_call.ret[1])

\* The last call is the construction of an object of class cls.
Constructed(cls) == pd_call.method = cls

\* The specification is malformed: an empty list or an object that is no
\* list for the values of a nominal, ordinal or position-based class, ...
MalformedValues ==
    /\ \E cls \in NominalClasses \cup PositionClasses : Constructed(cls)
    /\ \/ ~isinstance(pd_call.args[1], "list")
       \/ len(pd_call.args[1]) = 0

\* ... values and positions of different lengths for PositionParamDef, ...
MismatchedLengths ==
    /\ Constructed("PositionParamDef")
    /\ Sized(pd_call.args[1])
    /\ len(pd_call.args[1]) # len(pd_call.args[2])

\* ... a bound that is no number for MinMaxNumericParamDef.
NonNumericBounds ==
    /\ Constructed("MinMaxNumericParamDef")
    /\ \E i \in 1 .. 2 : ~IsNumber(pd_call.args[i])

\* C21 (WarpSpec).  The claim: the construction of a ParamDef from a
\* malformed specification (an empty or non-list value list for Nominal,
\* Ordinal and the position-based classes, non-numeric bounds for
\* MinMaxNumericParamDef, values and positions of different lengths for
\* PositionParamDef) raises, and raises the same kind of error in every
\* case, the ValueError that an empty value list raises.
C21_MalformedRaisesValueError ==
    (MalformedValues \/ MismatchedLengths \/ NonNumericBounds)
        => pd_call.raised = "ValueError"

\* C22 (DumpSpec).  The claim: the Experiment that from_dict makes of the
\* dump of an Experiment has the same Candidates, in the same order, in
\* candidates_pending, in candidates_working and in candidates_finished as
\* the dumped one, and its best_candidate is what _update_best finds in the
\* restored finished list.
C22_RestoreKeepsPartitions ==
    [][Restore =>
           /\ candidates_pending' = candidates_pending
           /\ candidates_working' = candidates_working
           /\ candidates_finished' = candidates_finished
           /\ best_candidate' =
                  _update_best(candidates_finished', result', failed',
                               minimization_problem')]_vars

\* The backend is between two rounds of its loop, or its loop has ended.
BetweenTicks == pc \in {"check_generation", "sleep", "done", "crashed"}

\* C23 (QueueSpec).  The claim: the backend flushes the out queue, calls
\* the wrapped Optimizer's update and only then replaces the Experiment it
\* holds, so that between ticks, and after an update that failed, the
\* Experiment the backend holds is the one the wrapped Optimizer was last
\* updated with successfully, or the initial one.
C23_HeldIsLastApplied ==
    BetweenTicks => _experiment = optimizer_experiment

\* The update handling of this tick is flushing the out queue.
Flushing == pc \in {"flush", "flush_get"}

\* The wrapped Optimizer's update has returned in this tick.
Applied == pc = "sleep" /\ tick_updates # <<>>

\* C24 (FairQueueSpec).  As long as no update has flushed anything, every
\* Candidate the wrapped Optimizer has returned (at most min_candidates per
\* call) is put on the out queue, where the caller finds it.  When an update
\* is taken at a tick, the flush is over and the out queue empty before the
\* wrapped Optimizer is given the new Experiment, so that nothing generated
\* from it can be flushed by this update: while the flush goes on, the
\* update has not been applied and no Candidate waits to be put, and what
\* the wrapped Optimizer returns after it is put on the out queue.  And
\* after an update has been applied, the wrapped Optimizer is asked for
\* Candidates again.
C24_FlushBeforeRegeneration ==
    /\ [](/\ Len(new_candidates) <= _min_candidates
          /\ flushed = {} =>
                 (1 .. gen_count) \subseteq
                     (Range(new_candidates) \cup Range(_out_queue)
                          \cup Range(next_candidates) \cup returned)
          /\ Flushing => /\ new_update # None
                         /\ new_update \notin Range(update_calls)
                         /\ new_candidates = <<>>
          /\ pc = "update" => _out_queue = <<>>)
    /\ [][(pc = "put_nowait" /\ new_candidates' # new_candidates)
              => _out_queue' = Append(_out_queue, Head(new_candidates))]_vars
    /\ Applied ~> (pc = "get_next_candidates")

\* An update has flushed a Candidate and has been applied, and a Candidate
\* generated after it is on the out queue.
C24_Witness ==
    /\ flushed # {}
    /\ update_calls # <<>>
    /\ pc # "crashed"
    /\ \E c \in Range(_out_queue) : \A f \in flushed : f < c

\* The caller has enqueued n items, Experiments all of them.
EnqueuedSnapshots(n) ==
    /\ Len(put_log) = n
    /\ "exit" \notin Range(put_log)

\* C25 (FairQueueSpec).  The claim: the Experiments passed to the wrapped
\* Optimizer's update are Experiments the caller has enqueued, in the order
\* of their enqueueing, none of them twice; and when the caller stops
\* enqueueing and never calls exit, the Experiment it enqueued last is
\* passed to the wrapped Optimizer's update in the end.
C25_LastSnapshotApplied ==
    /\ [](/\ StrictlyIncreasing(update_calls)
          /\ \A i \in Range(update_calls) :
                 i \in 1 .. Len(put_log) /\ Item(i) \in ExpRefs)
    /\ \A n \in 1 .. MaxPuts :
           EnqueuedSnapshots(n)
               ~> (n \in Range(update_calls) \/ Len(put_log) > n)

Without(lst, c) == SelectSeq(lst, LAMBDA x : x # c)

ValidPlaces ==
    {i \in 1 .. Len(candidates_finished) :
         HasValidResult(candidates_finished[i])}

BestPlaces ==
    {i \in ValidPlaces :
         \A j \in ValidPlaces :
             IF minimization_problem
             THEN result[candidates_finished[i]]
                      <= result[candidates_finished[j]]
             ELSE result[candidates_finished[i]]
                      >= result[candidates_finished[j]]}

\* C29 (Spec).  When several finished Candidates share the best valid
\* result, best_candidate is the one of them that comes first in
\* candidates_finished; when candidates_finished is not empty and none of
\* its Candidates has a valid result, best_candidate is its first element.
C29_TiesKeepTheEarliest ==
    /\ BestPlaces # {} =>
           \E i \in BestPlaces :
               /\ best_candidate = candidates_finished[i]
               /\ \A j \in BestPlaces : i <= j
    /\ (candidates_finished # <<>> /\ ValidPlaces = {}) =>
           best_candidate = candidates_finished[1]

\* Of the two finished Candidates of a maximization problem, which have the
\* same valid result, the one finished first is best_candidate.
C29_Witness ==
    /\ ~minimization_problem
    /\ candidates_finished = <<2, 1>>
    /\ HasValidResult(1)
    /\ HasValidResult(2)
    /\ result[1] = result[2]
    /\ best_candidate = 2

\* The class statements of parameter_definition.py: a class and the classes
\* it is derived from, directly or not.
SubclassOf ==
    {<<"OrdinalParamDef", "NominalParamDef">>,
     <<"PositionParamDef", "OrdinalParamDef">>,
     <<"PositionParamDef", "NominalParamDef">>}

IsInstanceOf(cls, sup) == cls = sup \/ <<cls, sup>> \in SubclassOf

\* The last step is a call of the Optimizer's constructor or of its update
\* with this Experiment.
GivenTo(experiment) == __init__(experiment) \/ Optimizer_update(experiment)

\* C30 (OptimizerSpec).  An Optimizer accepts an Experiment (its
\* construction with it, or its update, does not raise) exactly when each
\* ParamDef of the Experiment is an instance of an entry of the Optimizer's
\* SUPPORTED_PARAM_TYPES.  So a ParamDef of a subclass of a listed class is
\* accepted (Ordinal and Position where Nominal is listed), an Experiment
\* without ParamDefs is accepted by any Optimizer, and the base class, whose
\* list is empty, rejects every Experiment that has a ParamDef.
C30_AcceptedIffAllInstances ==
    [][\A experiment \in OptimizerArgs :
           GivenTo(experiment) =>
               /\ ~raised' <=>
                      \A name \in DOMAIN ParamDefClasses(experiment) :
                          \E sup \in SUPPORTED_PARAM_TYPES :
                              IsInstanceOf(ParamDefClasses(experiment)[name],
                                           sup)
               /\ (optimizer_class = "SomeOptimizer"
                   /\ experiment \in {"exp3", "exp4"}) => ~raised'
               /\ experiment = "exp0" => ~raised'
               /\ (optimizer_class = "Optimizer" /\ experiment # "exp0")
                      => raised']_vars

\* An Optimizer of the base class holds the Experiment without ParamDefs,
\* and its update with another Experiment has raised.
C30_Witness ==
    /\ optimizer_class = "Optimizer"
    /\ optimizer_experiment = "exp0"
    /\ raised

\* The last call is a call of method on an object of one of the classes.
CallOn(method, classes) ==
    /\ param_def # NoObject
    /\ param_def.cls \in classes
    /\ pd_call.method = method

\* lst is all 0 but for a 1 at place i.
OneHot(lst, i) ==
    \A j \in 1 .. Len(lst) : lst[j] = IF j = i THEN float(1) ELSE float(0)

\* i is the first place of lst that holds its maximum.
FirstMaximum(lst, i) ==
    /\ i \in 1 .. Len(lst)
    /\ \A j \in 1 .. Len(lst) : RLeq(lst[j], lst[i])
    /\ \A j \in 1 .. (i - 1) : RLess(lst[j], lst[i])

\* C31 (WarpSpec).  The claim: a NominalParamDef, and an OrdinalParamDef,
\* encodes value number i (the first place of the value in values) as the
\* list of len(values) coordinates that are 0 but for a 1 at place i, and
\* warp_out of a list of len(values) coordinates returns the value at the
\* place of the maximum coordinate, the first such place when several
\* coordinates are maximal.
C31_OneHotAndFirstMaximum ==
    /\ (CallOn("warp_in", NominalClasses)
         /\ In(pd_call.args[1], param_def.values))
            => /\ pd_call.raised = ""
               /\ Len(pd_call.ret) = Len(param_def.values)
               /\ \E i \in 1 .. Len(param_def.values) :
                      /\ param_def.values[i] = pd_call.args[1]
                      /\ \A j \in 1 .. (i - 1) :
                             param_def.values[j] # pd_call.args[1]
                      /\ OneHot(pd_call.ret, i)
    /\ (CallOn("warp_out", NominalClasses)
         /\ Len(pd_call.args) = Len(param_def.values))
            => /\ pd_call.raised = ""
               /\ \E i \in 1 .. Len(pd_call.args) :
                      /\ FirstMaximum(pd_call.args, i)
                      /\ pd_call.ret = <<param_def.values[i]>>

\* warp_out of a list whose two coordinates are both maximal has returned
\* the first of the two different values of an OrdinalParamDef.
C31_Witness ==
    /\ CallOn("warp_out", {"OrdinalParamDef"})
    /\ param_def.values = <<float(1), float(0)>>
    /\ pd_call.args = <<float(1), float(1)>>
    /\ pd_call.ret = <<float(1)>>

\* The classes the claim C32 names, and those of them that have positions.
SnappingClasses == {"OrdinalParamDef", "RangeParamDef"} \cup PositionClasses

\* The coordinate w, de-normalized: a place between the least and the
\* greatest position.
Denormalized(w) ==
    RAdd(RMul(w, RSub(RMax(param_def.positions), RMin(param_def.positions))),
         RMin(param_def.positions))

\* Position number i is as near to pos as any, and nearer than each before.
NearestEarliest(i, pos) ==
    /\ \A j \in 1 .. Len(param_def.positions) :
           RLeq(RAbs(RSub(param_def.positions[i], pos)),
                RAbs(RSub(param_def.positions[j], pos)))
    /\ \A j \in 1 .. (i - 1) :
           RLess(RAbs(RSub(param_def.positions[i], pos)),
                 RAbs(RSub(param_def.positions[j], pos)))

\* C32 (WarpSpec).  The claim: an object of the classes Ordinal, Position,
\* Range and Equidistant (and FixedValue, of which Range is made) decodes
\* by snapping: warp_out of a coordinate below 0 returns the first element
\* of values, of a coordinate above 1 the last element, and of a coordinate
\* inside [0, 1] the value whose position is nearest to the de-normalized
\* coordinate, the earliest such value.
C32_NearestPositionSnapping ==
    (CallOn("warp_out", SnappingClasses) /\ Len(pd_call.args) = 1)
        => /\ pd_call.raised = ""
           /\ RLess(pd_call.args[1], float(0))
                  => pd_call.ret = <<param_def.values[1]>>
           /\ RLess(float(1), pd_call.args[1])
                  => pd_call.ret = <<param_def.values[Len(param_def.values)]>>
           /\ (/\ RLeq(float(0), pd_call.args[1])
               /\ RLeq(pd_call.args[1], float(1))
               /\ param_def.positions # <<>>)
                  => \E i \in 1 .. Len(param_def.positions) :
                         /\ NearestEarliest(i, Denormalized(pd_call.args[1]))
                         /\ pd_call.ret = <<param_def.values[i]>>

\* C33 (WarpSpec).  The claim: for a MinMaxNumericParamDef, with any
\* combination of include_lower and include_upper, and for every x,
\* is_in_parameter_domain(x) is true if and only if warp_in(x)[0] lies in
\* [0, 1]; so for x an excluded bound and for x within epsilon of one.
C33_InDomainIffWarpedInUnit ==
    CallOn("warp_in", {"MinMaxNumericParamDef"})
        => (MinMax_is_in_parameter_domain(param_def, pd_call.args[1])
                <=> (/\ pd_call.raised = ""
                     /\ RLeq(float(0), pd_call.ret[1])
                     /\ RLeq(pd_call.ret[1], float(1))))

\* The classes that have compare_values: Ordinal, the position-based and
\* the numeric ones.
ComparableClasses ==
    {"OrdinalParamDef", "RangeParamDef"} \cup PositionClasses \cup NumericClasses

\* x is in the declared value set or domain of the object: one of values,
\* or between the bounds and not an excluded bound, or between border and
\* asymptotic_border.
Declared(x) ==
    CASE param_def.cls = "MinMaxNumericParamDef" ->
             /\ RLeq(param_def.lower_bound, x)
             /\ RLeq(x, param_def.upper_bound)
             /\ x = param_def.lower_bound => param_def.include_lower
             /\ x = param_def.upper_bound => param_def.include_upper
      [] param_def.cls = "AsymptoticNumericParamDef" ->
             \/ RLeq(param_def.border, x) /\ RLeq(x, param_def.asymptotic_border)
             \/ RLeq(param_def.asymptotic_border, x) /\ RLeq(x, param_def.border)
      [] OTHER -> \E i \in 1 .. Len(param_def.values) : param_def.values[i] = x

\* C34 (WarpSpec).  The claim: compare_values and distance of an Ordinal,
\* position-based or numeric ParamDef raise ValueError whenever one of the
\* two arguments is outside the declared domain or value set (for the
\* asymptotic class: outside the interval between border and
\* asymptotic_border), and return a result only when both are inside.
C34_OutsideDomainRaises ==
    (\/ CallOn("compare_values", ComparableClasses)
     \/ CallOn("distance", ComparableClasses))
        => /\ (\E i \in 1 .. 2 : ~Declared(pd_call.args[i]))
                  => pd_call.raised = "ValueError"
           /\ pd_call.raised = ""
                  => \A i \in 1 .. 2 : Declared(pd_call.args[i])

\* The last call is a call of method, with the one argument or coordinate
\* x, on an AsymptoticNumericParamDef of two different borders.
AsymptoticCall(method, x) ==
    /\ CallOn(method, {"AsymptoticNumericParamDef"})
    /\ param_def.border # param_def.asymptotic_border
    /\ pd_call.args = <<x>>

\* x is outside the interval between the borders, and b is the nearer one.
BeyondBorder(x, b) ==
    /\ b \in {param_def.border, param_def.asymptotic_border}
    /\ \A other \in {param_def.border, param_def.asymptotic_border} :
           \/ RLess(x, b) /\ RLeq(b, other)
           \/ RLess(b, x) /\ RLeq(other, b)

\* C39 (WarpSpec).  The claim: for an AsymptoticNumericParamDef, whichever
\* of border and asymptotic_border is the larger one (the two being
\* different), warp_in(border) is [0] and warp_in(asymptotic_border) is [1];
\* a value outside the interval between the borders warps as the nearer
\* border does; warp_out([0]) is border and warp_out([1]) is
\* asymptotic_border; and warp_out of a coordinate below 0 gives what
\* warp_out([0]) gives, of a coordinate above 1 what warp_out([1]) gives.
C39_AsymptoticBordersAndClamping ==
    \A x \in UnwarpedValues \cup {w[1] : w \in WarpedValues} :
        /\ AsymptoticCall("warp_in", x)
               => /\ (x = param_def.border \/ BeyondBorder(x, param_def.border))
                         => (pd_call.raised = "" /\ pd_call.ret = <<float(0)>>)
                  /\ (\/ x = param_def.asymptotic_border
                      \/ BeyondBorder(x, param_def.asymptotic_border))
                         => (pd_call.raised = "" /\ pd_call.ret = <<float(1)>>)
        /\ AsymptoticCall("warp_out", x)
               => /\ RLeq(x, float(0))
                         => /\ pd_call.raised = ""
                            /\ pd_call.ret = <<param_def.border>>
                  /\ RLeq(float(1), x)
                         => /\ pd_call.raised = ""
                            /\ pd_call.ret = <<param_def.asymptotic_border>>

\* warp_in of 5/4, which is above both borders, has returned [1] on the
\* object whose asymptotic border 1 is the larger one.
C39_Witness ==
    /\ AsymptoticCall("warp_in", Rat(5, 4))
    /\ param_def.asymptotic_border = float(1)
    /\ param_def.border = float(0)
    /\ pd_call.ret = <<float(1)>>

\* The positions of an EquidistantPositionParamDef are i/(n-1) for the
\* i-th of its n values, counted from 0: evenly spaced, from 0 to 1.
EvenlySpaced ==
    param_def.cls = "EquidistantPositionParamDef"
        => /\ Len(param_def.positions) = Len(param_def.values)
           /\ \A i \in 1 .. Len(param_def.values) :
                  param_def.positions[i] = Rat(i - 1, Len(param_def.values) - 1)
           /\ param_def.positions[1] = float(0)
           /\ param_def.positions[Len(param_def.positions)] = float(1)

\* C38 (WarpSpec), the claim as it is: in a FixedValueParamDef the position
\* of the i-th value is the sum of the values up to and with the i-th, and
\* in an EquidistantPositionParamDef the position of the i-th of n values
\* is i/(n-1).
C38_PositionsAreCumulativeSums ==
    /\ param_def.cls = "FixedValueParamDef"
           => /\ Len(param_def.positions) = Len(param_def.values)
              /\ \A i \in 1 .. Len(param_def.values) :
                     param_def.positions[i] = RSum(param_def.values, i)
    /\ EvenlySpaced

\* C38 (WarpSpec), amended.  In a FixedValueParamDef the position of the
\* i-th value is that value itself, and in an EquidistantPositionParamDef
\* the position of the i-th of n values is i/(n-1).
C38_PositionsAreTheValues ==
    /\ param_def.cls = "FixedValueParamDef"
           => /\ Len(param_def.positions) = Len(param_def.values)
              /\ \A i \in 1 .. Len(param_def.values) :
                     param_def.positions[i] = param_def.values[i]
    /\ EvenlySpaced

\* A FixedValueParamDef has been made of the values [1, 1]: its positions
\* are [1, 1], where the sums are [1, 2].
C38_Witness ==
    /\ Constructed("FixedValueParamDef")
    /\ param_def.cls = "FixedValueParamDef"
    /\ param_def.values = <<float(1), float(1)>>
    /\ param_def.positions = <<float(1), float(1)>>

\* Python's range(start, stop, step) for integers, step # 0.
RECURSIVE PyRange(_, _, _)
PyRange(start, stop, step) ==
    IF (step > 0 /\ start < stop) \/ (step < 0 /\ start > stop)
    THEN <<float(start)>> \o PyRange(start + step, stop, step)
    ELSE <<>>

\* The integer that an int argument stands for.
IntOf(obj) == obj.items[1][1]

\* RangeParamDef.__init__ has ended, with or without an exception, and
\* had integers for start, stop and step, to be tested as such.
EndedOnIntegers ==
    /\ init_frame.pc = "done"
    /\ init_frame.raised_at \notin {"args", "ints"}
    /\ Truthy(init_frame._ints)
    /\ \A attribute \in {init_frame._start, init_frame._stop, init_frame._step} :
           attribute.type = "int"

\* C35 (WarpSpec).  The claim: for integers start, stop and step, step # 0,
\* for which Python's range(start, stop, step) is not empty, the
\* construction of RangeParamDef(start, stop, step) gives an object whose
\* values are those of range(start, stop, step), in the same order, also
\* for a negative start, stop or step.
C35_ValuesOfPythonRange ==
    EndedOnIntegers =>
        LET start == IntOf(init_frame._start)
            stop == IntOf(init_frame._stop)
            step == IntOf(init_frame._step)
        IN  (step # 0 /\ PyRange(start, stop, step) # <<>>)
                => /\ init_frame.raised_at = ""
                   /\ param_def.cls = "RangeParamDef"
                   /\ param_def.values = PyRange(start, stop, step)

\* C36 (FairRangeSpec).  The claim: the construction of a RangeParamDef
\* whose arguments have passed the tests of the constructor ends: the loop
\* that builds the values is left after finitely many rounds, whatever
\* start, stop and step are (step 0 and a step away from stop among them),
\* and the constructor returns the object or raises.
C36_ConstructionEnds == (init_frame.pc = "while") ~> (init_frame.pc = "done")

\* The shapes of call that the documentation of RangeParamDef lists: one
\* to three positional arguments, alone or with the keyword ints; four
\* positional arguments and no keyword; the four keywords start, stop,
\* step, ints and no positional argument.
DocumentedShape(args, kwargs) ==
    \/ Len(args) \in 1 .. 3 /\ DOMAIN kwargs \in {{}, {"ints"}}
    \/ Len(args) = 4 /\ DOMAIN kwargs = {}
    \/ Len(args) = 0 /\ DOMAIN kwargs = {"start", "stop", "step", "ints"}

\* C37 (WarpSpec).  The claim: RangeParamDef takes every shape of call that
\* its documentation lists and rejects every other one with a ValueError.
C37_DocumentedShapesAccepted ==
    init_frame.pc # ""
        => /\ DocumentedShape(init_frame.args, init_frame.kwargs)
                  => init_frame.raised_at # "args"
           /\ ~DocumentedShape(init_frame.args, init_frame.kwargs)
                  => /\ init_frame.raised_at = "args"
                     /\ pd_call.raised = "ValueError"
====
